---- MODULE Spec2Model ----
(***************************************************************************)
(* Model of the agent registry, message router and orchestrator            *)
(* (backend/registry/a2a_registry.py) and of the per-agent tool execution  *)
(* contract (agents/shared/mcp/tool_registry.py,                           *)
(* agents/shared/unified_base_agent.py).                                   *)
(*                                                                         *)
(* Python strings that the code inspects character by character            *)
(* (capability matching) are sequences of one-character strings; messages  *)
(* of errors are sequences of word tokens; every other string is atomic.   *)
(* Python values are records tagged with their type in field t.            *)
(***************************************************************************)
EXTENDS Integers, Sequences, FiniteSets, TLC

VARIABLES collection, agents, agent_handlers, message_history,
          tools, agent_tools, request_count, error_count, last,
          active_connections, task, failures, registration

vars == <<collection, agents, agent_handlers, message_history,
          tools, agent_tools, request_count, error_count, last,
          active_connections, task, failures, registration>>

\* The observers' connections, the coroutine that is in flight and, as a
\* record of what happened, the number of remote dispatches to each agent
\* that have failed in a row.  registration holds the registration fields of
\* an agent's standalone runner and the position of register_with_a2a.
taskVars == <<active_connections, task, failures, registration>>

routerVars == <<collection, agents, agent_handlers, message_history>>
toolVars == <<tools, agent_tools, request_count, error_count>>

-----------------------------------------------------------------------------
(* Bounds of the model *)

MaxHistory == 1
MaxRequests == 2

-----------------------------------------------------------------------------
(* Python values *)

PyNone == [t |-> "none"]
\* A str value carries its text as a sequence of word tokens.
PyStr(s) == [t |-> "str", v |-> s]
PyBool(b) == [t |-> "bool", v |-> b]
PyInt(n) == [t |-> "int", v |-> n]
PyDict(f) == [t |-> "dict", v |-> f]
PyList(s) == [t |-> "list", v |-> s]

IsDict(x) == x.t = "dict"
HasKey(x, k) == k \in DOMAIN x.v
DictGet(x, k, default) == IF HasKey(x, k) THEN x.v[k] ELSE default

\* Python truthiness of a value (bool(x)).
Truthy(x) ==
    CASE x.t = "none" -> FALSE
      [] x.t = "str"  -> x.v # <<>>
      [] x.t = "bool" -> x.v
      [] x.t = "int"  -> x.v # 0
      [] x.t = "dict" -> DOMAIN x.v # {}
      [] x.t = "list" -> x.v # <<>>
      [] OTHER        -> TRUE

-----------------------------------------------------------------------------
(* Character strings: lower(), split(), the `in` substring test *)

LowerChar(c) ==
    CASE c = "C" -> "c"
      [] c = "D" -> "d"
      [] c = "S" -> "s"
      [] OTHER   -> c

Lower(s) == [i \in 1..Len(s) |-> LowerChar(s[i])]

\* needle in haystack, for Python strings
IsSubstring(needle, hay) ==
    \E i \in 0..(Len(hay) - Len(needle)) :
        \A j \in 1..Len(needle) : hay[i + j] = needle[j]

RECURSIVE SplitFrom(_, _, _)
SplitFrom(s, i, cur) ==
    IF i > Len(s)
    THEN IF cur = <<>> THEN <<>> ELSE <<cur>>
    ELSE IF s[i] = " "
         THEN (IF cur = <<>> THEN <<>> ELSE <<cur>>) \o SplitFrom(s, i + 1, <<>>)
         ELSE SplitFrom(s, i + 1, Append(cur, s[i]))

\* str.split(): the whitespace-separated words of s
Split(s) == SplitFrom(s, 1, <<>>)

SeqToSet(s) == {s[i] : i \in 1..Len(s)}

-----------------------------------------------------------------------------
(* Registry data: capabilities and agent descriptors *)

sQd        == <<"q", "d">>
sGetData   == <<"g", "e", "t", " ", "d", "a", "t", "a">>
sShowData  == <<"s", "h", "o", "w", " ", "d", "a", "t", "a">>
sChart     == <<"c", "h", "a", "r", "t">>
sDrawChart == <<"d", "r", "a", "w", " ", "c", "h", "a", "r", "t">>
sAPlot     == <<"a", " ", "p", "l", "o", "t">>
sSum       == <<"s", "u", "m">>
sAddUp     == <<"a", "d", "d", " ", "u", "p">>
sUpChart   == <<"C", "h", "a", "r", "t">>
sZz        == <<"z", "z">>
sShowSum   == <<"s", "h", "o", "w", " ", "s", "u", "m">>
sNo        == <<"n", "o">>

CapQuery == [name |-> sQd, description |-> sGetData, examples |-> <<sShowData>>]
CapChart == [name |-> sChart, description |-> sDrawChart, examples |-> <<sAPlot>>]
CapSum   == [name |-> sSum, description |-> sAddUp, examples |-> <<sShowSum>>]
CapNone  == [name |-> sNo, description |-> sNo, examples |-> <<>>]

Intents == {sShowData, sUpChart, sZz}

AgentIds == {"data-001", "viz-001", "gui-001"}
AgentTypes == {"data", "visualization"}

Agent(id, name, type, endpoint, caps) ==
    [id |-> id, name |-> name, type |-> type, endpoint |-> endpoint,
     capabilities |-> caps]

\* The descriptors register_agent is called with.  endpoint "" is an agent
\* served by a local handler, any other endpoint a remote agent.
Descriptors ==
    { Agent("data-001", "Data", "data", "", <<CapQuery>>),
      Agent("data-001", "Data v2", "data", "http://data:8080", <<CapQuery, CapSum>>),
      Agent("viz-001", "Viz", "visualization", "http://viz:8080", <<CapChart>>),
      Agent("gui-001", "Gui", "data", "", <<CapNone, CapChart>>) }

\* agent_data that AgentRegistration(**agent_data) rejects (a required field
\* is missing).
InvalidData == [id |-> "data-001"]

IsValidAgentData(d) == DOMAIN d = {"id", "name", "type", "endpoint", "capabilities"}

NoAgent == [t |-> "none"]

\* No coroutine is in flight.
NoTask == [pc |-> "idle"]

-----------------------------------------------------------------------------
(* A2ARegistry: registration, listing, unregistration *)

\* The index is the Chroma collection: its entries in insertion order.
CollectionIds(coll) == {coll[i].id : i \in 1..Len(coll)}

CollectionEntry(agent) == [id |-> agent.id, agent |-> agent]

\* What collection.add does with an id the collection already holds depends
\* on the Chroma release: it raises, or it logs and keeps the stored entry.
DupPolicies == {"raise", "ignore"}

RegisterOk(agent) == [success |-> TRUE, agent_id |-> agent.id]

RegisterFailed(msg) == [success |-> FALSE, error |-> PyStr(msg)]

\* register_agent that rebuilds both stores from the descriptor it was given.
RegisterAgentReplacing(coll, cache, agent_data, dup) ==
    IF ~IsValidAgentData(agent_data)
    THEN [collection |-> coll, agents |-> cache,
          ret |-> RegisterFailed(<<"validation", "error">>)]
    ELSE [collection |-> <<CollectionEntry(agent_data)>>,
          agents |-> [id \in DOMAIN cache |->
                         IF id = agent_data.id THEN agent_data ELSE NoAgent],
          ret |-> RegisterOk(agent_data)]

\* register_agent: the new index, the new cache and the returned dict.  The
\* coroutine has no await, so the event loop runs each call from its first
\* statement to its return without another call in between: two concurrent
\* calls run in one of the two orders.
RegisterAgent(coll, cache, agent_data, dup) ==
    IF ~IsValidAgentData(agent_data)
    THEN [collection |-> coll, agents |-> cache,
          ret |-> RegisterFailed(<<"validation", "error">>)]
    ELSE IF agent_data.id \in CollectionIds(coll)
         THEN IF dup = "raise"
              THEN [collection |-> coll, agents |-> cache,
                    ret |-> RegisterFailed(<<"ID", "already", "exists">>)]
              ELSE [collection |-> coll,
                    agents |-> [cache EXCEPT ![agent_data.id] = agent_data],
                    ret |-> RegisterOk(agent_data)]
         ELSE [collection |-> Append(coll, CollectionEntry(agent_data)),
               agents |-> [cache EXCEPT ![agent_data.id] = agent_data],
               ret |-> RegisterOk(agent_data)]

\* list_agents: the descriptors parsed back from the index, in index order.
ListAgents(coll) == [i \in 1..Len(coll) |-> coll[i].agent]

\* A delete that empties the collection.
CollectionDeleteAll(coll, id) == <<>>

\* collection.delete(ids=[agent_id])
CollectionDelete(coll, id) == SelectSeq(coll, LAMBDA e : e.id # id)

\* unregister_agent: removes the id from the index and from the cache.
UnregisterAgent(coll, cache, id) ==
    [collection |-> CollectionDelete(coll, id),
     agents |-> [cache EXCEPT ![id] = NoAgent],
     ret |-> TRUE]

\* The dict simulate_deployment_completion passes to update_agent: flat
\* deployment data with a status, not an AgentRegistration.
DeploymentData(id) == [agent_id |-> id, status |-> "active"]

\* collection.update either rejects the metadata it is given (it raises) or
\* writes its keys into the stored metadata; the "agent_data" key list_agents
\* reads is not among them, so the stored descriptor stays as it was.
UpdatePolicies == {"raise", "merge"}

\* update_agent: False and no change when the index does not hold the id or
\* the index rejects the update; otherwise the cache entry becomes agent_data.
UpdateAgent(coll, cache, agent_id, agent_data, policy) ==
    IF agent_id \notin CollectionIds(coll)
    THEN [collection |-> coll, agents |-> cache, ret |-> FALSE]
    ELSE IF policy = "raise"
         THEN [collection |-> coll, agents |-> cache, ret |-> FALSE]
         ELSE [collection |-> coll,
               agents |-> [cache EXCEPT ![agent_id] = agent_data],
               ret |-> TRUE]

Update(agent_id, agent_data, policy) ==
    LET r == UpdateAgent(collection, agents, agent_id, agent_data, policy) IN
    /\ collection' = r.collection
    /\ agents' = r.agents
    /\ last' = [op |-> "update", id |-> agent_id, data |-> agent_data,
                was_registered |-> agent_id \in CollectionIds(collection),
                ret |-> r.ret]
    /\ UNCHANGED <<agent_handlers, message_history, toolVars, taskVars>>

Register(agent_data, dup) ==
    LET r == RegisterAgent(collection, agents, agent_data, dup) IN
    /\ collection' = r.collection
    /\ agents' = r.agents
    /\ last' = [op |-> "register", data |-> agent_data,
                was_registered |-> agent_data.id \in CollectionIds(collection),
                ret |-> r.ret]
    /\ UNCHANGED <<agent_handlers, message_history, toolVars, taskVars>>

Unregister(id) ==
    LET r == UnregisterAgent(collection, agents, id) IN
    /\ collection' = r.collection
    /\ agents' = r.agents
    /\ last' = [op |-> "unregister", id |-> id, ret |-> r.ret]
    /\ UNCHANGED <<agent_handlers, message_history, toolVars, taskVars>>

\* register_agent_handler
RegisterHandler(id) ==
    /\ id \notin agent_handlers
    /\ agent_handlers' = agent_handlers \cup {id}
    /\ last' = [op |-> "register_handler", id |-> id]
    /\ UNCHANGED <<collection, agents, message_history, toolVars, taskVars>>

-----------------------------------------------------------------------------
(* Messages, responses and what a dispatch target does with a message *)

MessageTypes == {"request"}

Message(from, to, mtype, action, payload) ==
    [from_agent |-> from, to_agent |-> to, message_type |-> mtype,
     action |-> action, payload |-> payload]

A2AResponse(success, result, error, metadata) ==
    [success |-> success, result |-> result, error |-> error,
     metadata |-> metadata]

Return(v) == [kind |-> "return", val |-> v]
Raise(msg) == [kind |-> "raise", msg |-> msg]

\* What a message handler can do when it is awaited.
HandlerValues ==
    { PyStr(<<"ok">>),
      PyNone,
      PyDict([rows |-> PyInt(3)]),
      PyDict([error |-> PyStr(<<"Unknown", "action">>)]),
      PyDict([success |-> PyBool(FALSE)]) }

Outcomes ==
    {Return(v) : v \in HandlerValues} \cup {Raise(<<"boom">>), Raise(<<>>)}

\* What the HTTP POST to a remote agent does: the transport outcome and, when
\* the agent is reached, what its handler does.
Behaviours ==
    {[http |-> "ok", out |-> o, runner |-> "AgentRunner"] : o \in Outcomes}
    \cup {[http |-> h, out |-> Return(PyNone), runner |-> "AgentRunner"] :
              h \in {"timeout", "refused", "status500"}}
    \cup {[http |-> "ok", out |-> Return(PyStr(<<"ok">>)),
           runner |-> "StandardAgentRunner"]}

\* The behaviours drawn per target when one call sends to several agents.
BasicBehaviours ==
    { [http |-> "ok", out |-> Return(PyStr(<<"ok">>)), runner |-> "AgentRunner"],
      [http |-> "ok", out |-> Raise(<<"boom">>), runner |-> "AgentRunner"] }

\* The services a remote agent can run behind its endpoint.
Runners == {"AgentRunner", "StandardAgentRunner"}

\* The fields without default of the A2AMessageRequest model of each runner.
RequiredFields(runner) ==
    IF runner = "AgentRunner"
    THEN {"from_agent", "action", "payload"}
    ELSE {"from_agent", "to_agent", "action"}

\* The POST of _send_http_message: its URL and its JSON body. The messages of
\* the model carry no id, so correlation_id is None; the endpoints of the
\* model start with http.
HttpPost(target, m) ==
    [url |-> <<target.endpoint, "/a2a/message">>,
     json |-> [from_agent |-> m.from_agent,
               action |-> m.action,
               payload |-> m.payload,
               correlation_id |-> PyNone,
               message_type |-> m.message_type]]

\* A dispatch that repeats the POST once when it did not get an answer.
HttpRequestsRetry(target, m, beh) ==
    IF beh.http = "ok" THEN <<HttpPost(target, m)>>
    ELSE <<HttpPost(target, m), HttpPost(target, m)>>

\* The POSTs one call of _send_http_message issues.
HttpRequests(target, m, beh) == <<HttpPost(target, m)>>

\* The request validation the runner's framework makes before the endpoint
\* function is called.
RunnerAccepts(runner, body) == RequiredFields(runner) \subseteq DOMAIN body

\* The /a2a/message endpoint of StandardAgentRunner: the JSON body it answers
\* with.
StandardRunnerReply(out) ==
    IF out.kind = "raise"
    THEN PyDict([success |-> PyBool(FALSE), result |-> PyNone,
                 error |-> PyStr(out.msg)])
    ELSE IF IsDict(out.val) /\ HasKey(out.val, "error")
         THEN PyDict([success |-> PyBool(FALSE), result |-> PyNone,
                      error |-> out.val.v.error])
         ELSE IF IsDict(out.val)
                 /\ DictGet(out.val, "success", PyNone) = PyBool(FALSE)
              THEN PyDict([success |-> PyBool(FALSE), result |-> PyNone,
                           error |-> DictGet(out.val, "error",
                                             PyStr(<<"Unknown", "error">>))])
              ELSE PyDict([success |-> PyBool(TRUE), result |-> out.val,
                           error |-> PyNone])

\* The /a2a/message endpoint of AgentRunner: the JSON body it answers with.
RunnerReply(agent_id, out) ==
    IF out.kind = "raise"
    THEN PyDict([success |-> PyBool(FALSE), error |-> PyStr(out.msg),
                 agent |-> PyStr(<<agent_id>>),
                 error_type |-> PyStr(<<"Exception">>)])
    ELSE IF IsDict(out.val) /\ HasKey(out.val, "error")
         THEN PyDict([success |-> PyBool(FALSE), error |-> out.val.v.error,
                      agent |-> PyStr(<<agent_id>>)])
         ELSE IF IsDict(out.val)
                 /\ DictGet(out.val, "success", PyNone) = PyBool(FALSE)
              THEN out.val
              ELSE PyDict([success |-> PyBool(TRUE), result |-> out.val,
                           agent |-> PyStr(<<agent_id>>)])

\* _send_http_message: the response built from the outcome of the POST.
SendHttpMessage(target, m, beh) ==
    CASE beh.http = "timeout" ->
           A2AResponse(FALSE, PyNone,
                       PyStr(<<"Timeout", "sending", "message", "to", target.name>>),
                       [agent |-> target.name])
      [] beh.http = "refused" ->
           A2AResponse(FALSE, PyNone,
                       PyStr(<<"Cannot", "connect", "to", "host">>),
                       [agent |-> target.name])
      [] beh.http = "status500" ->
           A2AResponse(FALSE, PyNone,
                       PyStr(<<"HTTP", "500:", "Internal", "Server", "Error">>),
                       [agent |-> target.name])
      [] beh.http = "ok" /\ ~RunnerAccepts(beh.runner, HttpPost(target, m).json) ->
           A2AResponse(FALSE, PyNone,
                       PyStr(<<"HTTP", "422:", "Field", "required">>),
                       [agent |-> target.name])
      [] OTHER ->
           LET result == IF beh.runner = "AgentRunner"
                         THEN RunnerReply(target.id, beh.out)
                         ELSE StandardRunnerReply(beh.out) IN
           IF IsDict(result) /\ DictGet(result, "success", PyNone) = PyBool(FALSE)
           THEN A2AResponse(FALSE, PyNone,
                            DictGet(result, "error", PyStr(<<"Unknown", "error">>)),
                            [agent |-> target.name, action |-> m.action])
           ELSE A2AResponse(TRUE,
                            IF IsDict(result) THEN DictGet(result, "result", result)
                                              ELSE result,
                            PyNone,
                            [agent |-> target.name, action |-> m.action])

\* A local branch that reports a fixed message in place of the exception's.
SendLocalMessageGeneric(target, m, out) ==
    IF out.kind = "raise"
    THEN A2AResponse(FALSE, PyNone, PyStr(<<"Internal", "error">>),
                     [agent |-> target.name])
    ELSE A2AResponse(TRUE, out.val, PyNone,
                     [agent |-> target.name, action |-> m.action])

\* The local branch of send_message once the handler is found.
SendLocalMessage(target, m, out) ==
    IF out.kind = "raise"
    THEN A2AResponse(FALSE, PyNone, PyStr(out.msg), [agent |-> target.name])
    ELSE A2AResponse(TRUE, out.val, PyNone,
                     [agent |-> target.name, action |-> m.action])

\* next((a for a in agents if a.id == message.to_agent), None)
FindTarget(agentList, id) ==
    IF \E i \in 1..Len(agentList) : agentList[i].id = id
    THEN agentList[CHOOSE i \in 1..Len(agentList) :
                      /\ agentList[i].id = id
                      /\ \A j \in 1..(i - 1) : agentList[j].id # id]
    ELSE NoAgent

\* A router that dispatches to a registered handler without consulting the
\* registry first.
SendMessageHandlerFirst(coll, handlers, m, beh) ==
    LET target == FindTarget(ListAgents(coll), m.to_agent) IN
    IF m.to_agent \in handlers
    THEN [ret |-> SendLocalMessage([name |-> m.to_agent], m, beh.out),
          path |-> "local", posts |-> <<>>]
    ELSE IF target = NoAgent
         THEN [ret |-> A2AResponse(FALSE, PyNone,
                          PyStr(<<"Agent", m.to_agent, "not", "found", "in", "registry">>),
                          <<>>),
               path |-> "not_found", posts |-> <<>>]
         ELSE IF target.endpoint # ""
              THEN [ret |-> SendHttpMessage(target, m, beh), path |-> "http",
               posts |-> HttpRequests(target, m, beh)]
              ELSE [ret |-> A2AResponse(FALSE, PyNone,
                               PyStr(<<"Agent", m.to_agent, "has", "no",
                                       "handler", "registered">>),
                               <<>>),
                    path |-> "no_handler", posts |-> <<>>]

\* send_message after the message was appended to the history: the response,
\* the branch taken ("local" awaits the handler, "http" calls
\* _send_http_message) and the HTTP requests issued.
SendMessage(coll, handlers, m, beh) ==
    LET target == FindTarget(ListAgents(coll), m.to_agent) IN
    IF target = NoAgent
    THEN [ret |-> A2AResponse(FALSE, PyNone,
                     PyStr(<<"Agent", m.to_agent, "not", "found", "in", "registry">>),
                     <<>>),
          path |-> "not_found", posts |-> <<>>]
    ELSE IF target.endpoint # ""
         THEN [ret |-> SendHttpMessage(target, m, beh), path |-> "http",
               posts |-> HttpRequests(target, m, beh)]
         ELSE IF m.to_agent \notin handlers
              THEN [ret |-> A2AResponse(FALSE, PyNone,
                               PyStr(<<"Agent", m.to_agent, "has", "no",
                                       "handler", "registered">>),
                               <<>>),
                    path |-> "no_handler", posts |-> <<>>]
              ELSE [ret |-> SendLocalMessage(target, m, beh.out),
                    path |-> "local", posts |-> <<>>]

Senders == {"user", "data-001"}
Actions == {sQd}

\* The agents of the in-process agent manager, which registers a handler for
\* each of its agents.
HandlerIds == {"data-001"}

\* A send that records the message only once it was delivered.
SendRecordDelivered(m, beh) ==
    LET r == SendMessage(collection, agent_handlers, m, beh) IN
    /\ Len(message_history) < MaxHistory
    /\ message_history' = IF r.ret.success THEN Append(message_history, m)
                                           ELSE message_history
    /\ last' = [op |-> "send", msg |-> m, beh |-> beh, ret |-> r.ret,
                path |-> r.path, posts |-> r.posts]
    /\ UNCHANGED <<collection, agents, agent_handlers, toolVars, taskVars>>

\* send_message: the message is appended to the history, then dispatched.
Send(m, beh) ==
    LET r == SendMessage(collection, agent_handlers, m, beh) IN
    /\ Len(message_history) < MaxHistory
    /\ message_history' = Append(message_history, m)
    /\ last' = [op |-> "send", msg |-> m, beh |-> beh, ret |-> r.ret,
                path |-> r.path, posts |-> r.posts]
    /\ UNCHANGED <<collection, agents, agent_handlers, toolVars, taskVars>>

-----------------------------------------------------------------------------
(* Message history *)

\* The default of get_message_history's limit, the only length the code
\* attaches to the history.
HistoryLimit == 100

\* The number of sends of one run of the history's specification.
MaxSends == 101

\* messages[-limit:]
LastMessages(messages, limit) ==
    IF Len(messages) > limit
    THEN SubSeq(messages, Len(messages) - limit + 1, Len(messages))
    ELSE messages

\* get_message_history without an agent filter: a slice of the stored list,
\* which it leaves as it is.
GetMessageHistory(history, limit) == LastMessages(history, limit)

\* send_message in a run of up to MaxSends sends.
SendLogged(m, beh) ==
    LET r == SendMessage(collection, agent_handlers, m, beh) IN
    /\ Len(message_history) < MaxSends
    /\ message_history' = Append(message_history, m)
    /\ last' = [op |-> "send", msg |-> m, beh |-> beh, ret |-> r.ret,
                path |-> r.path, posts |-> r.posts]
    /\ UNCHANGED <<collection, agents, agent_handlers, toolVars, taskVars>>

GetHistory(limit) ==
    /\ last' = [op |-> "history", limit |-> limit,
                ret |-> GetMessageHistory(message_history, limit)]
    /\ UNCHANGED <<routerVars, toolVars, taskVars>>

-----------------------------------------------------------------------------
(* Lifecycle events: the emissions of send_message to the WebSocket observers *)

EmitStatuses == {"sent", "processing", "completed", "error"}

\* What each emission does when it is awaited: it returns or it raises.
EmitMaps == [EmitStatuses -> {"ok", "raise"}]

\* An observer channel whose failures are not caught around the emission.
EmissionUncaught(status) == FALSE

\* Whether the except clause around the emission of a status catches what the
\* emission raises.
EmissionCaught(status) == TRUE

EmissionEscapes(status, emit) == emit[status] = "raise" /\ ~EmissionCaught(status)

\* The events that reach the observers from one emission.
Delivered(status, emit) == IF emit[status] = "ok" THEN <<status>> ELSE <<>>

\* The outcome of a call that raises instead of returning a response.
CallRaises == [raised |-> TRUE]

\* send_message with its emissions (broadcast_ws left at its default): an
\* exception that escapes the "sent" or the "processing" emission leaves the
\* call; one that escapes the "completed" or the "error" emission is inside
\* the try block of _send_http_message and becomes a failed response.
SendMessageObserved(coll, handlers, m, beh, emit) ==
    LET r == SendMessage(coll, handlers, m, beh)
        target == FindTarget(ListAgents(coll), m.to_agent)
        final == IF beh.http \in {"timeout", "refused"} THEN "none"
                 ELSE IF r.ret.success THEN "completed" ELSE "error"
    IN IF EmissionEscapes("sent", emit)
       THEN [ret |-> CallRaises, path |-> "raised", posts |-> <<>>,
             events |-> <<>>]
       ELSE IF r.path # "http"
       THEN [ret |-> r.ret, path |-> r.path, posts |-> r.posts,
             events |-> Delivered("sent", emit)]
       ELSE IF EmissionEscapes("processing", emit)
       THEN [ret |-> CallRaises, path |-> "raised", posts |-> <<>>,
             events |-> Delivered("sent", emit)]
       ELSE IF final = "none"
       THEN [ret |-> r.ret, path |-> r.path, posts |-> r.posts,
             events |-> Delivered("sent", emit) \o Delivered("processing", emit)]
       ELSE IF EmissionEscapes(final, emit)
       THEN [ret |-> A2AResponse(FALSE, PyNone, PyStr(<<"emission", "failed">>),
                                 [agent |-> target.name]),
             path |-> r.path, posts |-> r.posts,
             events |-> Delivered("sent", emit) \o Delivered("processing", emit)]
       ELSE [ret |-> r.ret, path |-> r.path, posts |-> r.posts,
             events |-> Delivered("sent", emit) \o Delivered("processing", emit)
                        \o Delivered(final, emit)]

\* send_message with the outcome of each emission drawn.
SendObserved(m, beh, emit) ==
    LET r == SendMessageObserved(collection, agent_handlers, m, beh, emit) IN
    /\ Len(message_history) < MaxHistory
    /\ message_history' = Append(message_history, m)
    /\ last' = [op |-> "send", msg |-> m, beh |-> beh, emit |-> emit,
                ret |-> r.ret, path |-> r.path, posts |-> r.posts,
                events |-> r.events]
    /\ UNCHANGED <<collection, agents, agent_handlers, toolVars, taskVars>>

-----------------------------------------------------------------------------
(* Emission timing: send_message awaits each emission it makes *)

\* What connection.send_json does on one observer's connection: it completes,
\* it raises because the peer is gone, or it never completes because the peer
\* stopped reading.
ConnectionKinds == {"acks", "closed", "stalls"}

MaxConnections == 2

\* WebSocketManager.connect
Connect(kind) ==
    /\ Len(active_connections) < MaxConnections
    /\ active_connections' = Append(active_connections, kind)
    /\ last' = [op |-> "connect", kind |-> kind]
    /\ UNCHANGED <<routerVars, toolVars, task, failures, registration>>

\* send_message up to its first await: the message is appended to the history
\* and the "sent" emission begins.
SendBegin(m, beh) ==
    /\ task = NoTask
    /\ failures = [id \in AgentIds |-> 0]
    /\ Len(message_history) < MaxHistory
    /\ message_history' = Append(message_history, m)
    /\ task' = [pc |-> "emit_sent", msg |-> m, beh |-> beh, i |-> 1]
    /\ last' = [op |-> "send_begin", msg |-> m]
    /\ UNCHANGED <<collection, agents, agent_handlers, toolVars,
                   active_connections, failures, registration>>

\* One turn of the loop of broadcast_agent_message: await send_json on the
\* next connection. The await returns when the connection acknowledges and
\* when it raises (the exception is caught in the loop); on a connection that
\* stalls it does not return and the coroutine stays where it is.
EmitTo ==
    /\ task.pc \in {"emit_sent", "emit_processing", "emit_final"}
    /\ task.i <= Len(active_connections)
    /\ active_connections[task.i] # "stalls"
    /\ task' = [task EXCEPT !.i = @ + 1]
    /\ last' = [op |-> "emit", status |-> task.pc,
                connection |-> active_connections[task.i]]
    /\ UNCHANGED <<routerVars, toolVars, active_connections, failures, registration>>

\* The stage that follows an emission.
AfterEmission(pc) ==
    CASE pc = "emit_sent" -> "resolve"
      [] pc = "emit_processing" -> "emit_final"
      [] pc = "emit_final" -> "returned"

\* The end of broadcast_agent_message: the connections that raised are
\* removed and the awaiting coroutine goes on.
EmitDone ==
    /\ task.pc \in {"emit_sent", "emit_processing", "emit_final"}
    /\ task.i > Len(active_connections)
    /\ active_connections' = SelectSeq(active_connections, LAMBDA c : c # "closed")
    /\ task' = [task EXCEPT !.pc = AfterEmission(task.pc), !.i = 1]
    /\ last' = [op |-> "emit_done", status |-> task.pc]
    /\ UNCHANGED <<routerVars, toolVars, failures, registration>>

\* The lookup and the dispatch: a remote target is told "processing" and its
\* final status through two more emissions, the other paths return at once.
Resolve ==
    /\ task.pc = "resolve"
    /\ \E r \in {SendMessage(collection, agent_handlers, task.msg, task.beh)} :
           task' = [pc |-> IF r.path = "http" THEN "emit_processing" ELSE "returned",
                    msg |-> task.msg, beh |-> task.beh, i |-> 1,
                    ret |-> r.ret, path |-> r.path]
    /\ last' = [op |-> "resolve", msg |-> task.msg]
    /\ UNCHANGED <<routerVars, toolVars, active_connections, failures, registration>>

\* send_message returns its A2AResponse to the caller.
SendReturn ==
    /\ task.pc = "returned"
    /\ last' = [op |-> "send", msg |-> task.msg, beh |-> task.beh,
                ret |-> task.ret, path |-> task.path, posts |-> <<>>]
    /\ task' = NoTask
    /\ UNCHANGED <<routerVars, toolVars, active_connections, failures, registration>>

-----------------------------------------------------------------------------
(* Broadcast *)

\* The type filter of broadcast_message; agent_type is a string or None.
FilterByType(agentList, agent_type) ==
    IF Truthy(agent_type)
    THEN SelectSeq(agentList, LAMBDA a : <<a.type>> = agent_type.v)
    ELSE agentList

\* A broadcast that keeps the sender among its targets.
BroadcastTargetsWithSender(agentList, m, agent_type) ==
    FilterByType(agentList, agent_type)

\* The agents broadcast_message sends to, in list order.
BroadcastTargets(agentList, m, agent_type) ==
    SelectSeq(FilterByType(agentList, agent_type),
                 LAMBDA a : a.id # m.from_agent)

\* The message sent to one target and the response send_message gives.
BroadcastSends(coll, handlers, m, agent_type, behs) ==
    LET targets == BroadcastTargets(ListAgents(coll), m, agent_type) IN
    [i \in 1..Len(targets) |->
        LET msg == Message(m.from_agent, targets[i].id, m.message_type,
                           m.action, m.payload) IN
        [msg |-> msg,
         ret |-> SendMessage(coll, handlers, msg, behs[targets[i].id]).ret]]

Broadcast(m, agent_type, behs) ==
    LET sends == BroadcastSends(collection, agent_handlers, m, agent_type, behs) IN
    /\ Len(message_history) < MaxHistory
    /\ message_history' =
           message_history \o [i \in 1..Len(sends) |-> sends[i].msg]
    /\ last' = [op |-> "broadcast", msg |-> m, agent_type |-> agent_type,
                sent |-> [i \in 1..Len(sends) |-> sends[i].msg],
                ret |-> [i \in 1..Len(sends) |-> sends[i].ret]]
    /\ UNCHANGED <<collection, agents, agent_handlers, toolVars, taskVars>>

-----------------------------------------------------------------------------
(* Discovery and orchestration *)

MaxResultsDefault == 5

\* _find_matched_capabilities before list(set(...)): the names appended.
RECURSIVE MatchedList(_, _)
MatchedList(caps, intent) ==
    IF caps = <<>> THEN <<>>
    ELSE LET cap == Head(caps)
             intent_lower == Lower(intent)
             byName == \/ IsSubstring(Lower(cap.name), intent_lower)
                       \/ IsSubstring(Lower(cap.description), intent_lower)
             byExample ==
                 \E e \in 1..Len(cap.examples) :
                     \E w \in SeqToSet(Split(Lower(cap.examples[e]))) :
                         IsSubstring(w, intent_lower)
         IN (IF byName THEN <<cap.name>> ELSE <<>>)
            \o (IF byExample THEN <<cap.name>> ELSE <<>>)
            \o MatchedList(Tail(caps), intent)

\* list(set(matched)): the elements; their order is the build's hash order.
FindMatchedCapabilities(agent, intent) ==
    SeqToSet(MatchedList(agent.capabilities, intent))

\* _find_matched_capabilities tabulated over the descriptors and intents of
\* the model.
MatchTable ==
    [a \in Descriptors, intent \in Intents |-> FindMatchedCapabilities(a, intent)]

\* The orders in which a set can be listed.
Orderings(S) ==
    {f \in [1..Cardinality(S) -> S] : \A i, j \in 1..Cardinality(S) : i # j => f[i] # f[j]}

\* The loop of discover_agents over the hits of the query, nearest first.
RECURSIVE DiscoverLoop(_, _, _, _, _)
DiscoverLoop(coll, intent, ranking, i, n) ==
    IF i > n THEN <<>>
    ELSE <<[agent |-> coll[ranking[i]].agent,
            matched_capabilities |-> MatchTable[coll[ranking[i]].agent, intent]]>>
         \o DiscoverLoop(coll, intent, ranking, i + 1, n)

\* discover_agents: collection.query gives the n_results nearest entries in
\* the order `ranking` (a listing of the index positions by distance); a
\* query that raises gives no result.
DiscoverAgents(coll, intent, max_results, ranking, raises) ==
    IF raises \/ coll = <<>>
    THEN <<>>
    ELSE DiscoverLoop(coll, intent, ranking, 1,
                      IF Len(coll) < max_results THEN Len(coll) ELSE max_results)

\* The distances collection.query reports, in units of one half.
Distances == {0, 1}

\* relevance_score = 1.0 - (distance / 2.0) if distance else 1.0, in units of
\* one quarter.
RelevanceScore(distance) == IF distance # 0 THEN 4 - distance ELSE 4

\* list(set(matched)): the elements of the set once each; `first` is the
\* element the build's hash order puts first.
RECURSIVE SetToList(_, _)
SetToList(S, first) ==
    IF S = {} THEN <<>>
    ELSE LET x == IF first \in S THEN first ELSE CHOOSE y \in S : TRUE
         IN <<x>> \o SetToList(S \ {x}, first)

\* The DiscoveryResult appended for each hit from the i-th on.
RECURSIVE DiscoveryRows(_, _, _, _)
DiscoveryRows(rows, distances, first, i) ==
    IF i > Len(rows) THEN <<>>
    ELSE <<[agent |-> rows[i].agent,
            relevance_score |-> RelevanceScore(distances[i]),
            matched_capabilities |->
                SetToList(rows[i].matched_capabilities, first[rows[i].agent.id])]>>
         \o DiscoveryRows(rows, distances, first, i + 1)

\* discover_agents: the DiscoveryResult list, one entry per hit of the query
\* in the order of the hits; distances[i] is the distance of the i-th hit.
DiscoveryResults(coll, intent, max_results, ranking, distances, first, raises) ==
    DiscoveryRows(DiscoverAgents(coll, intent, max_results, ranking, raises),
                  distances, first, 1)

Discover(intent, max_results, ranking, distances, first, raises) ==
    /\ last' = [op |-> "discover", intent |-> intent,
                max_results |-> max_results,
                ret |-> DiscoveryResults(collection, intent, max_results,
                                         ranking, distances, first, raises)]
    /\ UNCHANGED <<routerVars, toolVars, taskVars>>

\* The values of one field of a list of records.
RECURSIVE Pluck(_, _)
Pluck(rows, field) ==
    IF rows = <<>> THEN <<>>
    ELSE <<Head(rows)[field]>> \o Pluck(Tail(rows), field)

\* next((c for c in agent.capabilities if c.name == capability_name), None)
FindCapability(agent, name) ==
    IF \E i \in 1..Len(agent.capabilities) : agent.capabilities[i].name = name
    THEN LET i == CHOOSE i \in 1..Len(agent.capabilities) :
                      /\ agent.capabilities[i].name = name
                      /\ \A j \in 1..(i - 1) : agent.capabilities[j].name # name
         IN agent.capabilities[i]
    ELSE PyNone

\* A loop that gives up at the first step whose response is a failure.
RECURSIVE OrchestrateLoopAbort(_, _, _, _, _, _, _)
OrchestrateLoopAbort(coll, handlers, discovered, intent, initiator, first, behs) ==
    IF discovered = <<>> THEN <<>>
    ELSE LET d == Head(discovered)
             agent == d.agent
         IN IF d.matched_capabilities = {}
            THEN OrchestrateLoopAbort(coll, handlers, Tail(discovered), intent,
                                      initiator, first, behs)
            ELSE LET message == Message(initiator, agent.id, "request",
                                        first[agent.id], [intent |-> intent])
                     response == SendMessage(coll, handlers, message,
                                             behs[agent.id]).ret
                     entry == [msg |-> message,
                               response |-> response,
                               step |-> [agent |-> agent.name,
                                         action |-> first[agent.id],
                                         success |-> response.success]]
                 IN IF response.success
                    THEN <<entry>> \o OrchestrateLoopAbort(
                             coll, handlers, Tail(discovered), intent,
                             initiator, first, behs)
                    ELSE <<entry>>

\* The loop of orchestrate_agents: for each discovery result that has a matched
\* capability, the message sent, the response and the step logged.
\* first[id] is the element list(set(...)) puts first for agent id.
RECURSIVE OrchestrateLoop(_, _, _, _, _, _, _)
OrchestrateLoop(coll, handlers, discovered, intent, initiator, first, behs) ==
    IF discovered = <<>> THEN <<>>
    ELSE LET d == Head(discovered)
             agent == d.agent
             rest == OrchestrateLoop(coll, handlers, Tail(discovered), intent,
                                     initiator, first, behs)
         IN IF d.matched_capabilities = {}
            THEN rest
            ELSE LET capability == FindCapability(agent, first[agent.id]) IN
                 IF capability = PyNone
                 THEN rest
                 ELSE LET message == Message(initiator, agent.id, "request",
                                             capability.name,
                                             [intent |-> intent])
                          response == SendMessage(coll, handlers, message,
                                                  behs[agent.id]).ret
                      IN <<[msg |-> message,
                            response |-> response,
                            step |-> [agent |-> agent.name,
                                      action |-> capability.name,
                                      success |-> response.success]]>> \o rest

\* An overall flag that asks every step to succeed.
AllSuccess(steps) == \A i \in 1..Len(steps) : steps[i].success

\* any(s["success"] for s in steps)
AnySuccess(steps) == \E i \in 1..Len(steps) : steps[i].success

\* An orchestration that reports success when discovery finds no agent.
OrchestrateAgentsEmptyOk(coll, handlers, intent, initiator, ranking, raises, first, behs) ==
    LET discovery_results ==
            DiscoverAgents(coll, intent, MaxResultsDefault, ranking, raises)
    IN IF discovery_results = <<>>
       THEN [sent |-> <<>>,
             discovered |-> <<>>,
             ret |-> [success |-> TRUE,
                      error |-> PyNone,
                      intent |-> intent,
                      steps |-> PyNone]]
       ELSE LET loop == OrchestrateLoop(coll, handlers, discovery_results,
                                        intent, initiator, first, behs)
                steps == Pluck(loop, "step")
            IN [sent |-> Pluck(loop, "msg"),
                discovered |-> Pluck(Pluck(discovery_results, "agent"), "id"),
                ret |-> [success |-> AnySuccess(steps),
                         error |-> PyNone,
                         intent |-> intent,
                         steps |-> steps]]

\* orchestrate_agents: the returned dict, the ids discovery returned and the
\* messages sent.
OrchestrateAgents(coll, handlers, intent, initiator, ranking, raises, first, behs) ==
    LET discovery_results ==
            DiscoverAgents(coll, intent, MaxResultsDefault, ranking, raises)
    IN IF discovery_results = <<>>
       THEN [sent |-> <<>>,
             discovered |-> <<>>,
             ret |-> [success |-> FALSE,
                      error |-> PyStr(<<"No", "agents", "found", "for", "intent">>),
                      intent |-> intent,
                      steps |-> PyNone]]
       ELSE LET loop == OrchestrateLoop(coll, handlers, discovery_results,
                                        intent, initiator, first, behs)
                steps == Pluck(loop, "step")
            IN [sent |-> Pluck(loop, "msg"),
                discovered |-> Pluck(Pluck(discovery_results, "agent"), "id"),
                ret |-> [success |-> AnySuccess(steps),
                         error |-> PyNone,
                         intent |-> intent,
                         steps |-> steps]]

CapNames == {sQd, sChart, sSum, sNo}

\* The capabilities of the registered agent id that match the intent.
MatchedOf(coll, id, intent) ==
    IF id \in CollectionIds(coll)
    THEN MatchTable[FindTarget(ListAgents(coll), id), intent]
    ELSE {}

Orchestrate(intent, initiator, ranking, raises, first, behs) ==
    \E r \in {OrchestrateAgents(collection, agent_handlers, intent, initiator,
                                ranking, raises, first, behs)} :
        /\ Len(message_history) < MaxHistory
        /\ message_history' = message_history \o r.sent
        /\ last' = [op |-> "orchestrate", intent |-> intent,
                    initiator |-> initiator, first |-> first,
                    discovered |-> r.discovered, sent |-> r.sent, ret |-> r.ret]
        /\ UNCHANGED <<collection, agents, agent_handlers, toolVars, taskVars>>

-----------------------------------------------------------------------------
(* Broadcast, dispatch by dispatch *)

\* broadcast_message up to its loop: the targets are fixed from list_agents.
\* inflight is the index of the target whose send_message is awaited, 0 when
\* none is; waited[j] holds the targets whose dispatch had completed when the
\* dispatch to target j started.
BroadcastBegin(m, agent_type, behs) ==
    /\ task = NoTask
    /\ failures = [id \in AgentIds |-> 0]
    /\ Len(message_history) < MaxHistory
    /\ task' = [pc |-> "fanout", msg |-> m, behs |-> behs,
                targets |-> Pluck(BroadcastTargets(ListAgents(collection), m,
                                                   agent_type), "id"),
                next |-> 1, inflight |-> 0, done |-> {},
                waited |-> <<>>, rets |-> <<>>]
    /\ last' = [op |-> "broadcast_begin", msg |-> m]
    /\ UNCHANGED <<routerVars, toolVars, active_connections, failures, registration>>

\* The loop reaches the next target: response = await self.send_message(msg).
\* The loop body runs only when the previous await has returned.
DispatchStart ==
    /\ task.pc = "fanout"
    /\ task.inflight = 0
    /\ task.next <= Len(task.targets)
    /\ message_history' =
           Append(message_history,
                  Message(task.msg.from_agent, task.targets[task.next],
                          task.msg.message_type, task.msg.action,
                          task.msg.payload))
    /\ task' = [task EXCEPT !.inflight = task.next,
                            !.waited = Append(@, task.done)]
    /\ last' = [op |-> "dispatch_start", to |-> task.targets[task.next]]
    /\ UNCHANGED <<collection, agents, agent_handlers, toolVars,
                   active_connections, failures, registration>>

\* The awaited send_message returns: at once for a local handler, when the
\* answer arrives or the timeout fires for a remote agent.
DispatchComplete ==
    /\ task.pc = "fanout"
    /\ task.inflight # 0
    /\ LET to == task.targets[task.inflight]
           msg == Message(task.msg.from_agent, to, task.msg.message_type,
                          task.msg.action, task.msg.payload)
       IN task' = [task EXCEPT
                       !.rets = Append(@, SendMessage(collection, agent_handlers,
                                                      msg, task.behs[to]).ret),
                       !.done = @ \cup {task.inflight},
                       !.next = @ + 1,
                       !.inflight = 0]
    /\ last' = [op |-> "dispatch_complete", to |-> task.targets[task.inflight]]
    /\ UNCHANGED <<routerVars, toolVars, active_connections, failures, registration>>

\* return responses
BroadcastReturn ==
    /\ task.pc = "fanout"
    /\ task.inflight = 0
    /\ task.next > Len(task.targets)
    /\ last' = [op |-> "broadcast_return", msg |-> task.msg,
                targets |-> task.targets, behs |-> task.behs,
                waited |-> task.waited, ret |-> task.rets]
    /\ task' = NoTask
    /\ UNCHANGED <<routerVars, toolVars, active_connections, failures, registration>>

-----------------------------------------------------------------------------
(* Descriptor status *)

\* AgentRegistration.status: the status the descriptor was registered with,
\* active when it names none.
StatusOf(agent) ==
    IF "status" \in DOMAIN agent THEN agent.status ELSE "active"

MaxTrackedSends == 4

\* send_message, with the run of failed remote dispatches to the target kept
\* on record: the send itself writes neither the index nor the cache.
SendTracked(m, beh) ==
    LET r == SendMessage(collection, agent_handlers, m, beh) IN
    /\ Len(message_history) < MaxTrackedSends
    /\ message_history' = Append(message_history, m)
    /\ failures' = IF r.path = "http"
                   THEN [failures EXCEPT
                             ![m.to_agent] = IF r.ret.success THEN 0 ELSE @ + 1]
                   ELSE failures
    /\ last' = [op |-> "send", msg |-> m, beh |-> beh, ret |-> r.ret,
                path |-> r.path, posts |-> r.posts]
    /\ UNCHANGED <<collection, agents, agent_handlers, toolVars,
                   active_connections, task, registration>>

-----------------------------------------------------------------------------
(* Tool execution: MCPToolRegistry and UnifiedBaseAgent *)

ToolParameter(name, type, required, default, enum) ==
    [name |-> name, type |-> type, required |-> required,
     default |-> default, enum |-> enum]

MCPTool(name, parameters) == [name |-> name, parameters |-> parameters]

ToolResult(success, result, error, metadata) ==
    [success |-> success, result |-> result, error |-> error,
     metadata |-> metadata]

NoTool == [t |-> "none"]

ToolNames == {"echo", "chart"}

\* The default tool of MCPToolRegistry._register_default_tools.
EchoTool ==
    MCPTool("echo", <<ToolParameter("message", "string", TRUE, PyNone, PyNone)>>)

ChartTool ==
    MCPTool("chart",
            << ToolParameter("kind", "string", TRUE, PyNone,
                             PyList(<<PyStr(<<"bar">>), PyStr(<<"line">>)>>)),
               ToolParameter("opts", "object", FALSE, PyNone, PyNone),
               ToolParameter("n", "number", FALSE, PyInt(10), PyNone) >>)

\* A chart tool whose required parameter declares a default.
ChartToolDefaulted ==
    MCPTool("chart",
            << ToolParameter("kind", "string", TRUE, PyStr(<<"bar">>),
                             PyList(<<PyStr(<<"bar">>), PyStr(<<"line">>)>>)),
               ToolParameter("n", "number", FALSE, PyInt(10), PyNone) >>)

ToolDefs == {EchoTool, ChartTool, ChartToolDefaulted}

\* The parameter dicts the tools are executed with.
ParameterDicts ==
    { <<>>,
      [message |-> PyStr(<<"Hello">>)],
      [message |-> PyInt(1)],
      [kind |-> PyStr(<<"bar">>)],
      [kind |-> PyStr(<<"pie">>)],
      [kind |-> PyStr(<<"bar">>), opts |-> PyStr(<<"x">>)],
      [kind |-> PyStr(<<"line">>), opts |-> PyDict([w |-> PyInt(2)])],
      [kind |-> PyStr(<<"bar">>), n |-> PyBool(TRUE)],
      [kind |-> PyStr(<<"bar">>), n |-> PyStr(<<"many">>)] }

\* What an executor can do when it is called.
ExecutorOutcomes ==
    {Return(PyStr(<<"Hello">>)), Return(PyNone), Raise(<<"boom">>), Raise(<<>>)}

\* isinstance(value, str), isinstance(value, (int, float)) and
\* isinstance(value, bool); bool is a subclass of int.
IsInstanceStr(value) == value.t = "str"
IsInstanceNumber(value) == value.t \in {"int", "float", "bool"}
IsInstanceBool(value) == value.t = "bool"

\* The check _validate_parameters makes for one declared parameter: PyNone or
\* the error message.
ValidateParameter(param, parameters) ==
    IF param.required /\ param.name \notin DOMAIN parameters
    THEN PyStr(<<"Missing", "required", "parameter:", param.name>>)
    ELSE IF param.name \notin DOMAIN parameters
         THEN PyNone
         ELSE LET value == parameters[param.name] IN
              IF param.type = "string" /\ ~IsInstanceStr(value)
              THEN PyStr(<<"Parameter", param.name, "must", "be", "a", "string">>)
              ELSE IF param.type = "number" /\ ~IsInstanceNumber(value)
              THEN PyStr(<<"Parameter", param.name, "must", "be", "a", "number">>)
              ELSE IF param.type = "boolean" /\ ~IsInstanceBool(value)
              THEN PyStr(<<"Parameter", param.name, "must", "be", "a", "boolean">>)
              ELSE IF Truthy(param.enum) /\ value \notin SeqToSet(param.enum.v)
              THEN PyStr(<<"Parameter", param.name, "must", "be", "one", "of">>)
              ELSE PyNone

\* _validate_parameters: the first error in declaration order, or PyNone.
RECURSIVE ValidateParameters(_, _)
ValidateParameters(params, parameters) ==
    IF params = <<>> THEN PyNone
    ELSE LET e == ValidateParameter(Head(params), parameters) IN
         IF e # PyNone THEN e ELSE ValidateParameters(Tail(params), parameters)

\* The result of calling the executor.
ExecutorResult(tool_name, out) ==
    IF out.kind = "raise"
    THEN ToolResult(FALSE, PyNone, PyStr(out.msg), [tool |-> tool_name])
    ELSE ToolResult(TRUE, out.val, PyNone, [tool |-> tool_name])

\* A registry that calls the executor without looking the tool up.
RegistryExecuteToolNoLookup(registry, tool_name, parameters, out) ==
    IF registry[tool_name] = NoTool
    THEN [ret |-> ExecutorResult(tool_name, out), invoked |-> {tool_name},
          args |-> parameters]
    ELSE LET validation_error ==
                 ValidateParameters(registry[tool_name].parameters, parameters)
         IN IF Truthy(validation_error)
            THEN [ret |-> ToolResult(FALSE, PyNone, validation_error, <<>>),
                  invoked |-> {}, args |-> parameters]
            ELSE [ret |-> ExecutorResult(tool_name, out),
                  invoked |-> {tool_name}, args |-> parameters]

\* MCPToolRegistry.execute_tool: the result, whether the executor ran and the
\* dict it is called with, which is the caller's dict as it was passed in
\* (args is read only when the executor ran).
RegistryExecuteTool(registry, tool_name, parameters, out) ==
    IF registry[tool_name] = NoTool
    THEN [ret |-> ToolResult(FALSE, PyNone,
                      PyStr(<<"Tool", tool_name, "not", "found">>), <<>>),
          invoked |-> {}, args |-> parameters]
    ELSE LET validation_error ==
                 ValidateParameters(registry[tool_name].parameters, parameters)
         IN IF Truthy(validation_error)
            THEN [ret |-> ToolResult(FALSE, PyNone, validation_error, <<>>),
                  invoked |-> {}, args |-> parameters]
            ELSE [ret |-> ExecutorResult(tool_name, out),
                  invoked |-> {tool_name}, args |-> parameters]

\* UnifiedBaseAgent.execute_tool: the result, whether the executor ran and
\* whether the call counts as an error.
AgentExecuteTool(registry, tool_name, parameters, out) ==
    IF registry[tool_name] = NoTool
    THEN [ret |-> ToolResult(FALSE, PyNone,
                      PyStr(<<"Tool", tool_name, "not", "found">>), <<>>),
          invoked |-> {}, error |-> TRUE]
    ELSE [ret |-> ExecutorResult(tool_name, out),
          invoked |-> {tool_name}, error |-> out.kind = "raise"]

\* MCPToolRegistry.register_tool
RegisterTool(tool) ==
    /\ tools' = [tools EXCEPT ![tool.name] = tool]
    /\ last' = [op |-> "register_tool", entry |-> "registry", tool |-> tool.name]
    /\ UNCHANGED <<routerVars, agent_tools, request_count, error_count, taskVars>>

\* UnifiedBaseAgent.register_tool
AgentRegisterTool(tool) ==
    /\ agent_tools' = [agent_tools EXCEPT ![tool.name] = tool]
    /\ last' = [op |-> "register_tool", entry |-> "agent", tool |-> tool.name]
    /\ UNCHANGED <<routerVars, tools, request_count, error_count, taskVars>>

ExecuteTool(tool_name, parameters, out) ==
    LET r == RegistryExecuteTool(tools, tool_name, parameters, out) IN
    /\ last' = [op |-> "execute", entry |-> "registry", tool |-> tool_name,
                parameters |-> parameters, out |-> out,
                ret |-> r.ret, invoked |-> r.invoked, args |-> r.args]
    /\ UNCHANGED <<routerVars, toolVars, taskVars>>

\* A call of UnifiedBaseAgent.execute_tool while fewer than limit requests
\* have been counted.
AgentExecuteWithin(limit, tool_name, parameters, out) ==
    LET r == AgentExecuteTool(agent_tools, tool_name, parameters, out) IN
    /\ request_count < limit
    /\ request_count' = request_count + 1
    /\ error_count' = IF r.error THEN error_count + 1 ELSE error_count
    /\ last' = [op |-> "execute", entry |-> "agent", tool |-> tool_name,
                parameters |-> parameters, out |-> out,
                ret |-> r.ret, invoked |-> r.invoked]
    /\ UNCHANGED <<routerVars, tools, agent_tools, taskVars>>

AgentExecute(tool_name, parameters, out) ==
    AgentExecuteWithin(MaxRequests, tool_name, parameters, out)

-----------------------------------------------------------------------------
(* UnifiedBaseAgent: tool sequences *)

MaxSteps == 2

\* parameters.get("continue_on_error", False) is False: the loop breaks after
\* a failed step when the key is absent or its value is the object False.
BreaksOnError(parameters) ==
    \/ "continue_on_error" \notin DOMAIN parameters
    \/ parameters["continue_on_error"] = PyBool(FALSE)

\* execute_tool_sequence from step i on: the outcome of execute_tool for each
\* step that is run, in order.
RECURSIVE ExecuteToolSequenceFrom(_, _, _, _)
ExecuteToolSequenceFrom(registry, tool_sequence, outs, i) ==
    IF i > Len(tool_sequence) THEN <<>>
    ELSE LET step == tool_sequence[i]
             r == AgentExecuteTool(registry, step.tool, step.parameters, outs[i])
         IN IF ~r.ret.success /\ BreaksOnError(step.parameters)
            THEN <<r>>
            ELSE <<r>> \o ExecuteToolSequenceFrom(registry, tool_sequence,
                                                  outs, i + 1)

ExecuteToolSequence(registry, tool_sequence, outs) ==
    ExecuteToolSequenceFrom(registry, tool_sequence, outs, 1)

\* The number of executions that counted as errors.
RECURSIVE ErrorsIn(_)
ErrorsIn(runs) ==
    IF runs = <<>> THEN 0
    ELSE (IF Head(runs).error THEN 1 ELSE 0) + ErrorsIn(Tail(runs))

AgentExecuteSequence(tool_sequence, outs) ==
    LET runs == ExecuteToolSequence(agent_tools, tool_sequence, outs) IN
    /\ request_count < MaxRequests
    /\ request_count + Len(tool_sequence) <= MaxRequests
    /\ request_count' = request_count + Len(runs)
    /\ error_count' = error_count + ErrorsIn(runs)
    /\ last' = [op |-> "sequence", tool_sequence |-> tool_sequence,
                outs |-> outs, ret |-> Pluck(runs, "ret")]
    /\ UNCHANGED <<routerVars, tools, agent_tools, taskVars>>

-----------------------------------------------------------------------------
(* UnifiedBaseAgent: tool selection and semantic queries *)

sEcho    == <<"e", "c", "h", "o">>
sBack    == <<"b", "a", "c", "k">>
sThe     == <<"t", "h", "e">>
sMessage == <<"m", "e", "s", "s", "a", "g", "e">>

\* The order in which self.tools.items() yields the tools.
ToolOrder == <<"echo", "chart">>

\* tool_name.lower().split('_') + tool.description.lower().split()
ToolKeywords(tool_name) ==
    IF tool_name = "echo"
    THEN <<sEcho>> \o Split(Lower(<<"E">> \o Tail(sEcho) \o <<" ">> \o sBack
                                  \o <<" ">> \o sThe \o <<" ">> \o sMessage))
    ELSE <<sChart>> \o Split(Lower(sDrawChart))

Queries == {sDrawChart, sUpChart, sEcho, sZz}

\* any(keyword in query_lower for keyword in tool_keywords if len(keyword) > 3)
KeywordMatch(tool_name, query) ==
    \E k \in 1..Len(ToolKeywords(tool_name)) :
        /\ Len(ToolKeywords(tool_name)[k]) > 3
        /\ IsSubstring(ToolKeywords(tool_name)[k], Lower(query))

\* KeywordMatch, tabulated over the tools and the queries.
KeywordTable ==
    [n \in ToolNames, q \in Queries |-> KeywordMatch(n, q)]

\* _fallback_tool_selection: every registered tool with a keyword in the
\* query, each with the context as its parameters.
RECURSIVE FallbackFrom(_, _, _, _)
FallbackFrom(registry, query, context, i) ==
    IF i > Len(ToolOrder) THEN <<>>
    ELSE (IF registry[ToolOrder[i]] # NoTool /\ KeywordTable[ToolOrder[i], query]
          THEN <<[tool |-> ToolOrder[i], parameters |-> context]>>
          ELSE <<>>)
         \o FallbackFrom(registry, query, context, i + 1)

FallbackToolSelection(registry, query, context) ==
    FallbackFrom(registry, query, context, 1)

\* The loop over tool_plan: the items that are dicts with a "tool" key, each
\* with item.get("parameters", {}).
RECURSIVE PlanItems(_)
PlanItems(tool_plan) ==
    IF tool_plan = <<>> THEN <<>>
    ELSE (IF IsDict(Head(tool_plan)) /\ HasKey(Head(tool_plan), "tool")
          THEN <<[tool |-> Head(tool_plan).v["tool"],
                  parameters |-> IF HasKey(Head(tool_plan), "parameters")
                                 THEN Head(tool_plan).v["parameters"]
                                 ELSE <<>>]>>
          ELSE <<>>)
         \o PlanItems(Tail(tool_plan))

\* select_tools_for_query: the sequence selected and where it came from.
\* proposal is what llm.generate_json does: it returns a value or raises.
SelectToolsForQuery(registry, semantic, query, context, proposal) ==
    IF semantic /\ proposal.kind = "return" /\ proposal.val.t = "list"
    THEN [source |-> "proposal", tool_sequence |-> PlanItems(proposal.val.v)]
    ELSE [source |-> "fallback",
          tool_sequence |-> FallbackToolSelection(registry, query, context)]

\* The two lists _handle_semantic_query builds from zip(results, tool_sequence).
RECURSIVE Aggregate(_, _, _)
Aggregate(results, tool_sequence, wanted) ==
    IF results = <<>> \/ tool_sequence = <<>> THEN <<>>
    ELSE (IF Head(results).success = wanted
          THEN <<[tool |-> Head(tool_sequence).tool,
                  value |-> IF wanted THEN Head(results).result
                                      ELSE Head(results).error]>>
          ELSE <<>>)
         \o Aggregate(Tail(results), Tail(tool_sequence), wanted)

\* _handle_semantic_query: the selection, the executions and the dict returned.
HandleSemanticQuery(registry, semantic, query, context, proposal, outs) ==
    LET sel == SelectToolsForQuery(registry, semantic, query, context, proposal)
        tool_sequence == sel.tool_sequence
    IN IF tool_sequence = <<>>
       THEN [source |-> sel.source, tool_sequence |-> <<>>, runs |-> <<>>,
             ret |-> [error |-> PyStr(<<"No", "appropriate", "tools", "found">>),
                      query |-> query]]
       ELSE LET runs == ExecuteToolSequence(registry, tool_sequence, outs)
                results == Pluck(runs, "ret")
            IN [source |-> sel.source, tool_sequence |-> tool_sequence,
                runs |-> runs,
                ret |-> [query |-> query,
                         tool_sequence |-> Pluck(tool_sequence, "tool"),
                         results |-> Aggregate(results, tool_sequence, TRUE),
                         errors |-> Aggregate(results, tool_sequence, FALSE),
                         semantic_selection |-> TRUE]]

\* handle_a2a_message for a semantic query: the message counts as one
\* request and each tool that is executed as one more.
AgentSemanticQuery(query, proposal, outs) ==
    LET context == [query |-> query]
        h == HandleSemanticQuery(agent_tools, TRUE, query, context, proposal, outs)
    IN /\ request_count < MaxRequests
       /\ request_count + 1 + Len(h.runs) <= MaxRequests
       /\ request_count' = request_count + 1 + Len(h.runs)
       /\ error_count' = error_count + ErrorsIn(h.runs)
       /\ last' = [op |-> "semantic", query |-> query, proposal |-> proposal,
                   outs |-> outs, source |-> h.source,
                   tool_sequence |-> h.tool_sequence,
                   executed |-> Len(h.runs), ret |-> h.ret]
       /\ UNCHANGED <<routerVars, tools, agent_tools, taskVars>>

-----------------------------------------------------------------------------
(* UnifiedBaseAgent: incoming messages and health *)

MaxHealthRequests == 10

sQuery        == <<"q", "u", "e", "r", "y">>
sHandleIntent == <<"h", "a", "n", "d", "l", "e", "_", "i", "n", "t", "e", "n", "t">>

\* The name of a tool as the characters of a message action.
ToolChars(tool_name) == IF tool_name = "echo" THEN sEcho ELSE sChart

\* message.action in self.tools: the tool the action names, NoTool if none.
ToolOfAction(registry, action) ==
    IF \E n \in ToolNames : registry[n] # NoTool /\ ToolChars(n) = action
    THEN registry[CHOOSE n \in ToolNames :
                      registry[n] # NoTool /\ ToolChars(n) = action]
    ELSE NoTool

\* payload.get(key, default)
PayloadGet(payload, key, default) ==
    IF key \in DOMAIN payload THEN payload[key] ELSE default

\* execute_tool_sequence raises out of its loop when a step fails whose
\* parameters are None: parameters.get is then an AttributeError.  The loop
\* has run up to and including that step.
SequenceRaises(tool_sequence, runs) ==
    /\ runs # <<>>
    /\ ~runs[Len(runs)].ret.success
    /\ "t" \in DOMAIN tool_sequence[Len(runs)].parameters

\* handle_intent with semantic tool selection: the executions made, whether
\* the sequence raised, and the dict returned otherwise.
HandleIntent(registry, intent, context, proposal, outs) ==
    LET sel == SelectToolsForQuery(registry, TRUE, intent, context, proposal)
        tool_sequence == sel.tool_sequence
        runs == ExecuteToolSequence(registry, tool_sequence, outs)
    IN IF tool_sequence = <<>>
       THEN [runs |-> <<>>, raised |-> FALSE,
             ret |-> [success |-> FALSE, intent |-> intent]]
       ELSE [runs |-> runs, raised |-> SequenceRaises(tool_sequence, runs),
             ret |-> [success |-> runs[1].ret.success,
                      tools |-> Pluck(tool_sequence, "tool")]]

\* The actions handled as semantic queries.  "query" stands for the four.
SemanticActions == {sQuery}

\* The body of handle_a2a_message inside its try, with
\* semantic_tool_selection set as __init__ sets it: the branch taken, the
\* execute_tool calls made and whether an exception reached the except
\* clause.  No tool of ToolNames is a target of action_mappings, so that
\* loop executes nothing.
HandleA2ABody(registry, message, proposal, outs) ==
    LET payload == message.payload IN
    IF message.action \in SemanticActions
    THEN LET query == PayloadGet(payload, "query",
                          PayloadGet(payload, "intent", message.action))
             h == HandleSemanticQuery(registry, TRUE, query, payload,
                                      proposal, outs)
         IN [path |-> "semantic", runs |-> h.runs,
             raised |-> SequenceRaises(h.tool_sequence, h.runs)]
    ELSE IF ToolOfAction(registry, message.action) # NoTool
    THEN [path |-> "tool",
          runs |-> <<AgentExecuteTool(registry,
                         ToolOfAction(registry, message.action).name,
                         payload, outs[1])>>,
          raised |-> FALSE]
    ELSE IF message.action = sHandleIntent
    THEN LET h == HandleIntent(registry, PayloadGet(payload, "intent", <<>>),
                               PayloadGet(payload, "context", <<>>),
                               proposal, outs)
         IN [path |-> "intent", runs |-> h.runs, raised |-> h.raised]
    ELSE IF message.message_type = "notification"
    THEN [path |-> "notification", runs |-> <<>>, raised |-> FALSE]
    ELSE LET h == HandleIntent(registry, message.action, payload,
                               proposal, outs)
         IN [path |-> "last_resort", runs |-> h.runs, raised |-> h.raised]

\* UnifiedBaseAgent.handle_a2a_message: the message counts as one request,
\* each execute_tool call as one more, and the except clause as one error.
HandleA2AMessage(message, proposal, outs) ==
    LET b == HandleA2ABody(agent_tools, message, proposal, outs) IN
    /\ request_count + 1 + MaxSteps <= MaxHealthRequests
    /\ request_count' = request_count + 1 + Len(b.runs)
    /\ error_count' = error_count + ErrorsIn(b.runs)
                          + (IF b.raised THEN 1 ELSE 0)
    /\ last' = [op |-> "handle", action |-> message.action, path |-> b.path,
                executed |-> Len(b.runs), raised |-> b.raised]
    /\ UNCHANGED <<routerVars, tools, agent_tools, taskVars>>

\* A status computed with elif in place of the second if.
GetHealthStatusElif(requests, errors) ==
    LET error_rate == IF requests > 0 THEN [num |-> errors, den |-> requests]
                      ELSE [num |-> 0, den |-> 1]
    IN [status |-> IF 10 * error_rate.num > error_rate.den THEN "degraded"
                   ELSE IF 2 * error_rate.num > error_rate.den THEN "unhealthy"
                   ELSE "healthy",
        request_count |-> requests,
        error_count |-> errors,
        error_rate |-> error_rate]

\* UnifiedBaseAgent.get_health_status.  error_rate is the quotient
\* errors / requests, kept as its numerator and denominator, and 0 before the
\* first request; rate > 0.1 is 10 * num > den and rate > 0.5 is
\* 2 * num > den.
GetHealthStatus(requests, errors) ==
    LET error_rate == IF requests > 0 THEN [num |-> errors, den |-> requests]
                      ELSE [num |-> 0, den |-> 1]
        status1 == "healthy"
        status2 == IF 10 * error_rate.num > error_rate.den
                   THEN "degraded" ELSE status1
        status3 == IF 2 * error_rate.num > error_rate.den
                   THEN "unhealthy" ELSE status2
    IN [status |-> status3,
        request_count |-> requests,
        error_count |-> errors,
        error_rate |-> error_rate]

\* A read of the agent's health.
HealthCheck ==
    /\ last' = [op |-> "health",
                ret |-> GetHealthStatus(request_count, error_count)]
    /\ UNCHANGED <<routerVars, toolVars, taskVars>>

-----------------------------------------------------------------------------
(* StandardAgentRunner: self-registration *)

MaxAttempts == 3

BaseRetryInterval == 1
MaxRetryInterval == 60

\* StandardAgentRunner.__init__: the registration fields.  pc is the position
\* of register_with_a2a, posts the number of registration POSTs made, reply
\* what the POST in flight came to, ret what register_with_a2a returned.
RunnerInit ==
    [pc |-> "created",
     registration_status |-> "pending",
     registration_attempts |-> 0,
     registration_error |-> PyNone,
     retry_count |-> 0,
     retry_interval |-> 0,
     posts |-> 0,
     reply |-> PyNone,
     ret |-> PyNone]

\* What a registration POST can come to: a response with a status code and
\* a body, a connection error, or another exception such as a timeout.
Response(status_code, body) ==
    [t |-> "response", status_code |-> status_code, body |-> body]

RegistryReplies ==
    {Response(200, PyDict([success |-> PyBool(TRUE)])),
     Response(200, PyDict([success |-> PyBool(FALSE),
                           error |-> PyStr(<<"Registration", "failed">>)])),
     Response(200, PyList(<<>>)),
     Response(500, PyStr(<<"Internal", "Server", "Error">>)),
     [t |-> "connect_error", msg |-> PyStr(<<"All", "connection", "attempts", "failed">>)],
     [t |-> "exception", msg |-> PyStr(<<"ReadTimeout">>)]}

RECURSIVE Pow2(_)
Pow2(n) == IF n = 0 THEN 1 ELSE 2 * Pow2(n - 1)

\* min(base_retry_interval * (2 ** retry_count), max_retry_interval)
RetryInterval(retry_count) ==
    IF BaseRetryInterval * Pow2(retry_count) < MaxRetryInterval
    THEN BaseRetryInterval * Pow2(retry_count)
    ELSE MaxRetryInterval

\* The error an attempt that did not register leaves in registration_error.
AttemptError(reply) ==
    CASE reply.t = "connect_error" -> reply.msg
      [] reply.t = "exception" -> reply.msg
      [] reply.status_code # 200 ->
             PyStr(<<"Registration", "failed", "with", "status">>)
      [] ~IsDict(reply.body) ->
             PyStr(<<"object", "has", "no", "attribute", "get">>)
      [] OTHER ->
             PyStr(<<"Failed", "to", "register">>)

\* Whether the body of the loop returns: the response is a 200 whose JSON
\* is an object with a truthy "success".
AttemptRegisters(reply) ==
    /\ reply.t = "response"
    /\ reply.status_code = 200
    /\ IsDict(reply.body)
    /\ Truthy(DictGet(reply.body, "success", PyNone))

\* A runner that gives up at the first attempt that does not register.
AfterReplyGivingUp(r, reply) ==
    IF AttemptRegisters(reply)
    THEN [r EXCEPT !.pc = "returned", !.registration_status = "registered",
                   !.registration_error = PyNone, !.ret = PyBool(TRUE)]
    ELSE [r EXCEPT !.pc = "returned", !.registration_status = "failed",
                   !.registration_error = AttemptError(reply),
                   !.ret = PyBool(FALSE)]

\* The rest of an iteration of the loop once the POST has come to reply:
\* the fields of the runner on return, or when it goes to sleep.
AfterReply(r, reply) ==
    IF AttemptRegisters(reply)
    THEN [r EXCEPT !.pc = "returned", !.registration_status = "registered",
                   !.registration_error = PyNone, !.ret = PyBool(TRUE)]
    ELSE [r EXCEPT !.pc = "sleeping",
                   !.registration_error = AttemptError(reply),
                   !.retry_interval = RetryInterval(r.retry_count),
                   !.retry_count = r.retry_count + 1]

\* lifespan calls register_with_a2a, which builds the registration data,
\* sleeps and probes the backend; a failed probe is logged and ignored.
RunnerStart ==
    /\ registration.pc = "created"
    /\ registration' = [registration EXCEPT !.pc = "loop"]
    /\ last' = [op |-> "runner_start"]
    /\ UNCHANGED <<routerVars, toolVars, active_connections, task, failures>>

\* The head of the loop: the attempt is counted and the POST is sent.
RunnerPost ==
    /\ registration.pc = "loop"
    /\ registration.registration_attempts < MaxAttempts
    /\ registration' = [registration EXCEPT
                            !.pc = "posting",
                            !.registration_attempts = @ + 1,
                            !.posts = @ + 1,
                            !.reply = PyNone]
    /\ last' = [op |-> "runner_post"]
    /\ UNCHANGED <<routerVars, toolVars, active_connections, task, failures>>

\* The registry, or the network, settles the POST in flight.
RunnerReplyArrives(reply) ==
    /\ registration.pc = "posting"
    /\ registration' = [registration EXCEPT !.pc = "answered", !.reply = reply]
    /\ last' = [op |-> "runner_reply"]
    /\ UNCHANGED <<routerVars, toolVars, active_connections, task, failures>>

\* The runner resumes from the POST.
RunnerResume ==
    /\ registration.pc = "answered"
    /\ registration' = AfterReply(registration, registration.reply)
    /\ last' = [op |-> "runner_resume"]
    /\ UNCHANGED <<routerVars, toolVars, active_connections, task, failures>>

\* asyncio.sleep(retry_interval) ends.
RunnerWake ==
    /\ registration.pc = "sleeping"
    /\ registration' = [registration EXCEPT !.pc = "loop"]
    /\ last' = [op |-> "runner_wake"]
    /\ UNCHANGED <<routerVars, toolVars, active_connections, task, failures>>

\* GET /health, served once the lifespan's startup, which awaits
\* register_with_a2a, has completed: the agent's health with the registration
\* fields added, and degraded unless the runner is registered.
RunnerHealthCheck ==
    LET health_data == GetHealthStatus(request_count, error_count) IN
    /\ registration.pc = "returned"
    /\ last' = [op |-> "runner_health",
                ret |-> [status |-> IF registration.registration_status # "registered"
                                    THEN "degraded" ELSE health_data.status,
                         request_count |-> health_data.request_count,
                         error_count |-> health_data.error_count,
                         registration_status |-> registration.registration_status,
                         registration_attempts |-> registration.registration_attempts,
                         registration_error |->
                             IF Truthy(registration.registration_error)
                             THEN registration.registration_error ELSE PyNone]]
    /\ UNCHANGED <<routerVars, toolVars, taskVars>>

-----------------------------------------------------------------------------
(* Specifications *)

Init ==
    /\ collection = <<>>
    /\ agents = [id \in AgentIds |-> NoAgent]
    /\ agent_handlers = {}
    /\ message_history = <<>>
    /\ tools = [n \in ToolNames |-> IF n = "echo" THEN EchoTool ELSE NoTool]
    /\ agent_tools = [n \in ToolNames |-> NoTool]
    /\ request_count = 0
    /\ error_count = 0
    /\ last = [op |-> "init"]
    /\ active_connections = <<>>
    /\ task = NoTask
    /\ failures = [id \in AgentIds |-> 0]
    /\ registration = RunnerInit

\* A registry constructed against a Chroma server that already holds the
\* "agents" collection: get_or_create_collection opens it with the entries an
\* earlier process registered, and the cache starts as the empty dict.
PersistedCollections ==
    {<<>>} \cup {<<CollectionEntry(d)>> : d \in Descriptors}

InitPersisted ==
    /\ collection \in PersistedCollections
    /\ agents = [id \in AgentIds |-> NoAgent]
    /\ agent_handlers = {}
    /\ message_history = <<>>
    /\ tools = [n \in ToolNames |-> IF n = "echo" THEN EchoTool ELSE NoTool]
    /\ agent_tools = [n \in ToolNames |-> NoTool]
    /\ request_count = 0
    /\ error_count = 0
    /\ last = [op |-> "init"]
    /\ active_connections = <<>>
    /\ task = NoTask
    /\ failures = [id \in AgentIds |-> 0]
    /\ registration = RunnerInit

Messages ==
    {Message("user", to, mt, a, <<>>) :
        to \in AgentIds, mt \in MessageTypes, a \in Actions}

BroadcastMessages ==
    {Message(f, "*", mt, a, <<>>) :
        f \in Senders, mt \in MessageTypes, a \in Actions}

TypeFilters == {PyNone} \cup {PyStr(<<ty>>) : ty \in AgentTypes}

RegisterStep == \E d \in Descriptors \cup {InvalidData}, dup \in DupPolicies : Register(d, dup)
UnregisterStep == \E id \in AgentIds : Unregister(id)
UpdateStep ==
    \E id \in AgentIds, policy \in UpdatePolicies :
        Update(id, DeploymentData(id), policy)
RegisterHandlerStep == \E id \in HandlerIds : RegisterHandler(id)
SendStep == \E m \in Messages, beh \in Behaviours : Send(m, beh)
\* The behaviour of each agent that is sent to; the others are not reached.
Idle == [http |-> "ok", out |-> Return(PyNone), runner |-> "AgentRunner"]
BehaviourMaps(ids) ==
    {[id \in AgentIds |-> IF id \in ids THEN f[id] ELSE Idle] :
        f \in [ids -> BasicBehaviours]}

\* The message of the history runs, sent again and again.
HistoryMessages == {Message("user", "data-001", "request", sQd, <<>>)}

HistoryLimits == {1, HistoryLimit}

SendLoggedStep == \E m \in HistoryMessages : SendLogged(m, Idle)
GetHistoryStep == \E limit \in HistoryLimits : GetHistory(limit)

\* A target answers, or does not answer until the timeout fires.
FanOutBehaviours ==
    {b \in Behaviours : b.runner = "AgentRunner" /\ b.out = Return(PyNone)
                           /\ b.http \in {"ok", "timeout"}}

BroadcastBeginStep ==
    \E m \in BroadcastMessages, ty \in TypeFilters,
       behs \in [AgentIds -> FanOutBehaviours] :
        BroadcastBegin(m, ty, behs)

\* A remote agent answers, times out, refuses the connection or answers 500.
TrackedBehaviours ==
    {b \in Behaviours : b.runner = "AgentRunner" /\ b.out = Return(PyNone)}

SendTrackedStep ==
    \E m \in {x \in Messages : x.to_agent = "viz-001"}, beh \in TrackedBehaviours :
        SendTracked(m, beh)

\* The steps of a tool sequence: a tool name and the parameters chosen for it.
StepParameterDicts ==
    { <<>>,
      [continue_on_error |-> PyBool(TRUE)],
      [continue_on_error |-> PyBool(FALSE)],
      [continue_on_error |-> PyNone] }

SequenceSteps == [tool : ToolNames, parameters : StepParameterDicts]

RECURSIVE SeqsOver(_, _)
SeqsOver(S, n) ==
    IF n = 0 THEN {<<>>}
    ELSE SeqsOver(S, n - 1)
             \cup {Append(q, x) : q \in {p \in SeqsOver(S, n - 1) : Len(p) = n - 1},
                                  x \in S}

StepOutcomes == {Return(PyStr(<<"Hello">>)), Raise(<<"boom">>)}

ToolSequences == SeqsOver(SequenceSteps, MaxSteps)

SequenceStep ==
    \E tool_sequence \in ToolSequences :
        \E outs \in [1..Len(tool_sequence) -> StepOutcomes] :
            AgentExecuteSequence(tool_sequence, outs)

\* The elements a proposed plan can hold: an object naming a tool, with or
\* without parameters, an object naming none, and a string.
PlanElements ==
    {PyDict([tool |-> n]) : n \in ToolNames}
        \cup {PyDict([tool |-> n,
                      parameters |-> [continue_on_error |-> PyBool(TRUE)]]) :
                  n \in ToolNames}
        \cup {PyDict([purpose |-> PyStr(<<"why">>)]), PyStr(<<"echo">>)}

\* What the reasoning backend answers: a plan, something that is no array,
\* or a failure.
Proposals ==
    {Return(PyList(p)) : p \in SeqsOver(PlanElements, MaxSteps)}
        \cup {Return(PyDict([tool |-> "echo"])), Return(PyNone),
              Raise(<<"boom">>)}

OutcomeLists == [1..MaxSteps -> StepOutcomes]

SemanticQueryStep ==
    \E query \in Queries, proposal \in Proposals, outs \in OutcomeLists :
        AgentSemanticQuery(query, proposal, outs)

\* The messages an agent runtime receives: a semantic query, a tool named by
\* the action, an intent, a notification and an action it does not know.
HealthMessages ==
    {Message("user", "data-001", "request", sQuery, [query |-> q]) :
         q \in {sDrawChart, sZz}}
        \cup {Message("user", "data-001", "request", sEcho, <<>>),
              Message("user", "data-001", "request", sHandleIntent,
                      [intent |-> sEcho]),
              Message("user", "data-001", "notification", sZz, <<>>),
              Message("user", "data-001", "request", sZz, <<>>)}

\* What the reasoning backend answers to the runtime: a failure, a plan whose
\* step has null parameters, and a plan of two steps.
HealthProposals ==
    {Raise(<<"boom">>),
     Return(PyList(<<PyDict([tool |-> "echo", parameters |-> PyNone])>>)),
     Return(PyList(<<PyDict([tool |-> "echo"]), PyDict([tool |-> "chart"])>>))}

HandleMessageStep ==
    \E message \in HealthMessages, proposal \in HealthProposals,
       outs \in OutcomeLists :
        HandleA2AMessage(message, proposal, outs)

HealthExecuteStep ==
    \E n \in ToolNames, out \in StepOutcomes :
        AgentExecuteWithin(MaxHealthRequests, n, <<>>, out)

ConnectStep == \E kind \in ConnectionKinds : Connect(kind)
SendBeginStep == \E m \in Messages, beh \in BasicBehaviours : SendBegin(m, beh)

BroadcastStep ==
    \E m \in BroadcastMessages, ty \in TypeFilters :
        LET targets == BroadcastTargets(ListAgents(collection), m, ty) IN
        \E behs \in BehaviourMaps({targets[i].id : i \in 1..Len(targets)}) :
            Broadcast(m, ty, behs)

\* The orders in which list(set(matched)) can list each agent's matches:
\* first[id] is the element it puts first.
RECURSIVE FirstMapsOver(_, _)
FirstMapsOver(ids, matched) ==
    IF ids = {} THEN {<<>>}
    ELSE LET id == CHOOSE x \in ids : TRUE IN
         {(id :> c) @@ f :
             c \in (IF matched[id] = {} THEN {sNo} ELSE matched[id]),
             f \in FirstMapsOver(ids \ {id}, matched)}

FirstMaps(matched) == FirstMapsOver(AgentIds, matched)

\* The rankings collection.query can give for an index of n entries.
Rankings == [n \in 0..Cardinality(AgentIds) |-> Orderings(1..n)]

\* The distances of the hits of a query, nearest first.
DistanceLists ==
    [n \in 0..Cardinality(AgentIds) |->
        {d \in [1..n -> Distances] : \A i, j \in 1..n : i < j => d[i] <= d[j]}]

MaxResultsValues == {1, 2, MaxResultsDefault}

DiscoverStep ==
    \E intent \in Intents, max_results \in MaxResultsValues :
        \E matched \in {[id \in AgentIds |-> MatchedOf(collection, id, intent)]} :
            \/ \E first \in FirstMaps(matched),
                  ranking \in Rankings[Len(collection)],
                  distances \in DistanceLists[Len(collection)] :
                   Discover(intent, max_results, ranking, distances, first, FALSE)
            \/ Discover(intent, max_results, [i \in 1..Len(collection) |-> i],
                        [i \in 1..Len(collection) |-> 0],
                        [id \in AgentIds |-> sNo], TRUE)

OrchestrateStep ==
    \E intent \in Intents :
        \E matched \in {[id \in AgentIds |-> MatchedOf(collection, id, intent)]} :
            \/ \E first \in FirstMaps(matched),
                  behs \in BehaviourMaps({id \in AgentIds : matched[id] # {}}),
                  ranking \in Rankings[Len(collection)] :
                   Orchestrate(intent, "user", ranking, FALSE, first, behs)
            \/ Orchestrate(intent, "user", [i \in 1..Len(collection) |-> i], TRUE,
                           [id \in AgentIds |-> sNo], [id \in AgentIds |-> Idle])

RegisterToolStep == \E tool \in ToolDefs : RegisterTool(tool)
AgentRegisterToolStep == \E tool \in ToolDefs : AgentRegisterTool(tool)
ExecuteToolStep ==
    \E n \in ToolNames, p \in ParameterDicts, out \in ExecutorOutcomes :
        ExecuteTool(n, p, out)
AgentExecuteStep ==
    \E n \in ToolNames, p \in ParameterDicts, out \in ExecutorOutcomes :
        AgentExecute(n, p, out)

\* The agents of the observed runs: one reached through its handler and one
\* reached over HTTP; gui-001 stays unregistered.
ObservedDescriptors ==
    {d \in Descriptors : d.id = "viz-001" \/ (d.id = "data-001" /\ d.endpoint = "")}

RegisterObservedStep ==
    \E d \in ObservedDescriptors, dup \in DupPolicies : Register(d, dup)

SendObservedStep ==
    \E m \in Messages, beh \in Behaviours, emit \in EmitMaps :
        SendObserved(m, beh, emit)

\* Registration and single sends.
Next ==
    \/ RegisterStep
    \/ UnregisterStep
    \/ RegisterHandlerStep
    \/ SendStep

Spec == Init /\ [][Next]_vars

\* The calls that return a Result: send_message and the tool registry's
\* execute_tool.
NextCalls ==
    \/ RegisterStep
    \/ RegisterHandlerStep
    \/ SendStep
    \/ ExecuteToolStep

SpecCalls == Init /\ [][NextCalls]_vars

\* Registration and sends under an observer channel that can fail.
NextObserved ==
    \/ RegisterObservedStep
    \/ RegisterHandlerStep
    \/ SendObservedStep

SpecObserved == Init /\ [][NextObserved]_vars

\* Registration and broadcast.
NextBroadcast ==
    \/ RegisterStep
    \/ UnregisterStep
    \/ RegisterHandlerStep
    \/ BroadcastStep

SpecBroadcast == Init /\ [][NextBroadcast]_vars

\* Registration and orchestration.
NextOrchestrate ==
    \/ RegisterStep
    \/ RegisterHandlerStep
    \/ OrchestrateStep

SpecOrchestrate == Init /\ [][NextOrchestrate]_vars

\* Registration and discovery.
NextDiscover ==
    \/ RegisterStep
    \/ UnregisterStep
    \/ DiscoverStep

SpecDiscover == Init /\ [][NextDiscover]_vars

\* The calls that write the index and the cache, on a registry that may have
\* been constructed over a persisted index.
NextRegistry ==
    \/ RegisterStep
    \/ UnregisterStep
    \/ UpdateStep
    \/ RegisterHandlerStep

SpecRegistry == InitPersisted /\ [][NextRegistry]_vars

\* Sends and reads of the message history.
NextHistory ==
    \/ SendLoggedStep
    \/ GetHistoryStep

SpecHistory == Init /\ [][NextHistory]_vars

\* A send in progress with observers connecting; the event loop resumes a
\* coroutine whose await has completed.
SendProgress == EmitTo \/ EmitDone \/ Resolve \/ SendReturn

NextEmission ==
    \/ RegisterObservedStep
    \/ ConnectStep
    \/ SendBeginStep
    \/ EmitTo
    \/ EmitDone
    \/ Resolve
    \/ SendReturn

SpecEmission == Init /\ [][NextEmission]_vars /\ WF_vars(SendProgress)

\* A broadcast in progress.
NextFanOut ==
    \/ RegisterObservedStep
    \/ RegisterHandlerStep
    \/ BroadcastBeginStep
    \/ DispatchStart
    \/ DispatchComplete
    \/ BroadcastReturn

SpecFanOut == Init /\ [][NextFanOut]_vars

\* Registration and runs of sends to a remote agent.
NextStatus ==
    \/ RegisterObservedStep
    \/ SendTrackedStep

SpecStatus == Init /\ [][NextStatus]_vars

\* An agent runtime: its tools and the sequences it executes.
NextAgent ==
    \/ AgentRegisterToolStep
    \/ SequenceStep
    \/ SemanticQueryStep

SpecAgent == Init /\ [][NextAgent]_vars

\* An agent runtime: the calls that count requests and errors, and the reads
\* of its health.
NextHealth ==
    \/ AgentRegisterToolStep
    \/ HealthExecuteStep
    \/ HandleMessageStep
    \/ HealthCheck

SpecHealth == Init /\ [][NextHealth]_vars

\* The tools the agent executes behind the runner's endpoints.
RunnerExecuteStep ==
    \E n \in ToolNames, out \in StepOutcomes :
        AgentExecuteWithin(MaxRequests, n, <<>>, out)

RunnerReplyStep == \E reply \in RegistryReplies : RunnerReplyArrives(reply)

\* What the runner does on its own, and what every POST comes to: the client
\* times out after 30 seconds.
RunnerProgress ==
    RunnerStart \/ RunnerPost \/ RunnerReplyStep \/ RunnerResume \/ RunnerWake

\* A standalone agent: its registration, the tools it executes and the reads
\* of its health.
NextRunner ==
    \/ RunnerStart
    \/ RunnerPost
    \/ RunnerReplyStep
    \/ RunnerResume
    \/ RunnerWake
    \/ RunnerHealthCheck
    \/ AgentRegisterToolStep
    \/ RunnerExecuteStep

SpecRunner == Init /\ [][NextRunner]_vars /\ WF_vars(RunnerProgress)

\* The two tool-execution entry points.
NextTools ==
    \/ RegisterToolStep
    \/ AgentRegisterToolStep
    \/ ExecuteToolStep
    \/ AgentExecuteStep

SpecTools == Init /\ [][NextTools]_vars

-----------------------------------------------------------------------------
(* Registration *)

\* The descriptor list_agents returns for an id, NoAgent when it returns none.
Listed(id) == FindTarget(ListAgents(collection), id)

\* C1: list() holds at most one descriptor per agent id, and registering an id
\* that is already registered succeeds and replaces the stored descriptor, so
\* that list() and the cache then give the fields of the latest registration.
C1_ReRegisterUpserts ==
    /\ \A i, j \in 1..Len(collection) :
           collection[i].id = collection[j].id => i = j
    /\ (last.op = "register" /\ IsValidAgentData(last.data) /\ last.was_registered)
           => /\ last.ret.success
              /\ Listed(last.data.id) = last.data
              /\ agents[last.data.id] = last.data

-----------------------------------------------------------------------------
(* Sending *)

\* C2: a send whose to_agent is not a registered agent id returns
\* success=false with an error containing "not found", awaits no handler and
\* issues no HTTP request.
C2_UnknownTargetNotFound ==
    (last.op = "send" /\ last.msg.to_agent \notin CollectionIds(collection))
        => /\ ~last.ret.success
           /\ IsSubstring(<<"not", "found">>, last.ret.error.v)
           /\ last.path \notin {"local", "http"}

\* A send to an id that is not registered although a handler is registered
\* for it.
C2_Witness ==
    /\ last.op = "send"
    /\ last.msg.to_agent \notin CollectionIds(collection)
    /\ last.msg.to_agent \in agent_handlers
    /\ ~last.ret.success

-----------------------------------------------------------------------------
(* Results *)

\* C3: every Result returned by send and by the tool registry's execute has
\* exactly one of result and error populated: success=true comes with a result
\* and no error, success=false with a non-empty error string and no result.
C3_ResultXorError ==
    (last.op = "send" \/ (last.op = "execute" /\ last.entry = "registry"))
        => /\ last.ret.success
                => (last.ret.result # PyNone /\ last.ret.error = PyNone)
           /\ ~last.ret.success
                => /\ last.ret.result = PyNone
                   /\ last.ret.error # PyNone
                   /\ last.ret.error.t = "str"
                   /\ last.ret.error.v # <<>>

-----------------------------------------------------------------------------
(* Orchestration *)

\* C4: the overall success flag of orchestrate is true exactly when at least
\* one step of its step log has success=true; it is false when every step
\* failed and when no step was executed.
C4_SuccessIffAnyStep ==
    last.op = "orchestrate"
        => LET steps == IF last.discovered = <<>> THEN <<>> ELSE last.ret.steps
           IN last.ret.success <=> (\E i \in 1..Len(steps) : steps[i].success)

\* An orchestration that succeeded overall although one of its steps failed.
C4_Witness ==
    /\ last.op = "orchestrate"
    /\ last.discovered # <<>>
    /\ last.ret.success
    /\ \E i \in 1..Len(last.ret.steps) : ~last.ret.steps[i].success

\* C10: when discovery returns no agents, orchestrate returns success=false
\* with the intent it was given, sends no message and appends nothing to the
\* message history.
C10_NoAgentsNoSend ==
    [][(last'.op = "orchestrate" /\ last'.discovered = <<>>)
           => /\ ~last'.ret.success
              /\ last'.ret.intent = last'.intent
              /\ last'.sent = <<>>
              /\ message_history' = message_history]_vars

\* An orchestration whose discovery gave nothing although agents are
\* registered.
C10_Witness ==
    /\ last.op = "orchestrate"
    /\ last.discovered = <<>>
    /\ collection # <<>>
    /\ ~last.ret.success

-----------------------------------------------------------------------------
(* Tools *)

\* C5: executing a tool name that is not registered returns success=false and
\* invokes no executor, whatever the parameters and whatever was registered.
C5_UnknownToolNotInvoked ==
    (/\ last.op = "execute"
     /\ (IF last.entry = "registry" THEN tools ELSE agent_tools)[last.tool] = NoTool)
        => /\ ~last.ret.success
           /\ last.invoked = {}

\* An execution of a tool that is not registered while another tool is, with
\* parameters the unregistered tool's declaration would accept.
C5_Witness ==
    /\ last.op = "execute"
    /\ last.entry = "registry"
    /\ last.tool = "chart"
    /\ tools["chart"] = NoTool
    /\ tools["echo"] # NoTool
    /\ last.parameters = [kind |-> PyStr(<<"bar">>)]
    /\ ~last.ret.success

\* C6: at every tool-execution entry point, parameters that are invalid for
\* the tool's declaration (a required parameter without default missing, a
\* value not of the declared type, a value outside the enum) give
\* success=false with an error and the executor is not invoked.
C6_InvalidParametersRejected ==
    LET registry == IF last.entry = "registry" THEN tools ELSE agent_tools
        OfType(type, value) ==
            CASE type = "string" -> value.t = "str"
              [] type = "number" -> value.t \in {"int", "float", "bool"}
              [] type = "boolean" -> value.t = "bool"
              [] type = "object" -> value.t = "dict"
              [] type = "array" -> value.t = "list"
              [] OTHER -> TRUE
        Invalid(param, parameters) ==
            IF param.name \notin DOMAIN parameters
            THEN param.required /\ param.default = PyNone
            ELSE \/ ~OfType(param.type, parameters[param.name])
                 \/ /\ param.enum # PyNone
                    /\ parameters[param.name] \notin SeqToSet(param.enum.v)
    IN (/\ last.op = "execute"
        /\ registry[last.tool] # NoTool
        /\ \E i \in 1..Len(registry[last.tool].parameters) :
               Invalid(registry[last.tool].parameters[i], last.parameters))
           => /\ ~last.ret.success
              /\ last.ret.error # PyNone
              /\ last.invoked = {}

-----------------------------------------------------------------------------
(* Exceptions and handler outputs *)

\* C7: an exception raised by a tool executor makes the registry's execute
\* return success=false with the exception's message as error, and an
\* exception raised by a local message handler makes send return success=false
\* with the exception's message as error; the call returns in both cases.
C7_ExceptionsBecomeResults ==
    /\ (/\ last.op = "execute" /\ last.entry = "registry"
        /\ last.invoked # {} /\ last.out.kind = "raise")
           => /\ ~last.ret.success
              /\ last.ret.error = PyStr(last.out.msg)
              /\ last.ret.result = PyNone
    /\ (/\ last.op = "send" /\ last.path = "local"
        /\ last.beh.out.kind = "raise")
           => /\ ~last.ret.success
              /\ last.ret.error = PyStr(last.beh.out.msg)
              /\ last.ret.result = PyNone

\* A send whose local handler raised an exception with a message.
C7_Witness ==
    /\ last.op = "send"
    /\ last.path = "local"
    /\ last.beh.out = Raise(<<"boom">>)
    /\ ~last.ret.success

\* C8: a handler output that is a dict with an `error` key or with
\* success=false makes send return success=false, any other output makes it
\* return success=true with that output as result, on the local path and on
\* the remote path alike.
C8_HandlerOutputNormalised ==
    (/\ last.op = "send"
     /\ last.path \in {"local", "http"}
     /\ last.beh.http = "ok"
     /\ last.beh.out.kind = "return")
        => LET v == last.beh.out.val
               failed == /\ IsDict(v)
                         /\ \/ HasKey(v, "error")
                            \/ DictGet(v, "success", PyNone) = PyBool(FALSE)
           IN /\ failed => ~last.ret.success
              /\ (failed /\ HasKey(v, "error")) => last.ret.error = v.v.error
              /\ ~failed => (last.ret.success /\ last.ret.result = v)

-----------------------------------------------------------------------------
(* Broadcast *)

\* C9: broadcast never sends to the agent the message comes from, even when
\* that agent is registered and matches the type filter, and returns exactly
\* one Result for every other registered agent that matches the filter.
C9_BroadcastSkipsSender ==
    last.op = "broadcast"
        => LET expected ==
                   {collection[i].id : i \in
                       {j \in 1..Len(collection) :
                           /\ collection[j].id # last.msg.from_agent
                           /\ \/ last.agent_type = PyNone
                              \/ <<collection[j].agent.type>> = last.agent_type.v}}
           IN /\ \A i \in 1..Len(last.sent) :
                     last.sent[i].to_agent # last.msg.from_agent
              /\ Len(last.ret) = Cardinality(expected)
              /\ Len(last.sent) = Len(last.ret)
              /\ {last.sent[i].to_agent : i \in 1..Len(last.sent)} = expected

\* A broadcast from a registered agent that matches the type filter, with at
\* least one other agent reached.
C9_Witness ==
    /\ last.op = "broadcast"
    /\ last.agent_type # PyNone
    /\ \E i \in 1..Len(collection) :
           /\ collection[i].id = last.msg.from_agent
           /\ <<collection[i].agent.type>> = last.agent_type.v
    /\ Len(last.ret) >= 1

-----------------------------------------------------------------------------
(* History and remote dispatch *)

C13_BodyMeetsRunnerSchema ==
    (last.op = "send" /\ last.path = "http")
        => /\ \A runner \in Runners :
                  RunnerAccepts(runner, last.posts[1].json)
           /\ (last.beh.http = "ok" /\ last.ret.error # PyNone)
                => ~IsSubstring(<<"HTTP", "422:">>, last.ret.error.v)

-----------------------------------------------------------------------------
(* Observer independence *)

\* C14: the Result of send does not depend on the observer channel: for the
\* same message, registry and target behaviour it is the same whether each
\* lifecycle-event emission succeeds or raises, and no emission failure makes
\* send raise.
C14_ResultIgnoresEmissions ==
    (last.op = "send")
        => /\ last.ret # CallRaises
           /\ \A emit \in EmitMaps :
                  SendMessageObserved(collection, agent_handlers, last.msg,
                                      last.beh, emit).ret = last.ret

\* A send to a remote agent that answered although every emission raised.
C14_Witness ==
    /\ last.op = "send"
    /\ last.path = "http"
    /\ last.emit = [st \in EmitStatuses |-> "raise"]
    /\ last.events = <<>>
    /\ last.ret # CallRaises
    /\ last.ret.success

-----------------------------------------------------------------------------
(* Discovery *)

\* C15: the list discover returns is in non-increasing relevance_score order,
\* holds at most max_results entries and places agents with equal scores in
\* the order in which they were registered.
C15_DiscoverOrdered ==
    last.op = "discover"
        => /\ Len(last.ret) <= last.max_results
           /\ \A i, j \in 1..Len(last.ret) :
                  i < j => last.ret[i].relevance_score >= last.ret[j].relevance_score
           /\ \A i, j \in 1..Len(last.ret) :
                  (i < j /\ last.ret[i].relevance_score = last.ret[j].relevance_score)
                      => \A a, b \in 1..Len(collection) :
                             (/\ collection[a].id = last.ret[i].agent.id
                              /\ collection[b].id = last.ret[j].agent.id)
                                 => a < b

\* C17: matched_capabilities holds the name of each capability of the agent
\* whose name or description occurs in the intent or one of whose example
\* phrases shares a word with the intent, holds no other name, and holds each
\* name once.
C17_MatchedCapabilitiesExact ==
    last.op = "discover"
        => \A r \in 1..Len(last.ret) :
               LET agent == last.ret[r].agent
                   matched == last.ret[r].matched_capabilities
                   intent_lower == Lower(last.intent)
                   words == SeqToSet(Split(intent_lower))
                   Overlaps(cap) ==
                       \/ IsSubstring(Lower(cap.name), intent_lower)
                       \/ IsSubstring(Lower(cap.description), intent_lower)
                       \/ \E e \in 1..Len(cap.examples) :
                              SeqToSet(Split(Lower(cap.examples[e]))) \cap words # {}
               IN /\ \A c \in 1..Len(agent.capabilities) :
                         Overlaps(agent.capabilities[c])
                             <=> agent.capabilities[c].name \in SeqToSet(matched)
                  /\ \A m \in 1..Len(matched) :
                         \E c \in 1..Len(agent.capabilities) :
                             agent.capabilities[c].name = matched[m]
                  /\ \A m, n \in 1..Len(matched) : matched[m] = matched[n] => m = n

-----------------------------------------------------------------------------
(* Concurrent registration *)

\* C16: two register calls for distinct agent ids both take effect in
\* whichever order the event loop runs them: a register call that returns
\* success leaves its id in list() and in the cache, with the descriptor it
\* was given when the id is new, and changes the entry of no other id in
\* either store, so once both calls have returned both ids are in both.
C16_ConcurrentRegistersBothKept ==
    [][(last'.op = "register" /\ last'.ret.success)
           => /\ FindTarget(ListAgents(collection'), last'.data.id) # NoAgent
              /\ agents'[last'.data.id] = last'.data
              /\ ~last'.was_registered
                     => FindTarget(ListAgents(collection'), last'.data.id)
                            = last'.data
              /\ \A other \in AgentIds \ {last'.data.id} :
                     /\ Listed(other)' = Listed(other)
                     /\ agents'[other] = agents[other]]_vars

C16_Witness ==
    /\ last.op = "register"
    /\ last.ret.success
    /\ ~last.was_registered
    /\ Listed(last.data.id) = last.data
    /\ agents[last.data.id] = last.data
    /\ \E other \in AgentIds \ {last.data.id} :
           /\ Listed(other) # NoAgent
           /\ agents[other] = Listed(other)

-----------------------------------------------------------------------------
(* Orchestration steps *)

-----------------------------------------------------------------------------
(* Cache and index *)

\* The agent ids the in-memory cache holds.
CacheIds == {id \in AgentIds : agents[id] # NoAgent}

\* C19: after any sequence of register, update and unregister calls, failed
\* ones included, the cache holds exactly the agent ids the index holds; after
\* unregister(id) the id is in neither, and after a failed register or an
\* update of an unknown id the cache holds no id the index lacks.
C19_CacheMirrorsIndex ==
    /\ last.op \in {"register", "update", "unregister"}
           => CacheIds = CollectionIds(collection)
    /\ last.op = "unregister"
           => (last.id \notin CacheIds /\ last.id \notin CollectionIds(collection))
    /\ (last.op \in {"register", "update"} /\ ~last.was_registered
            /\ ~(last.op = "register" /\ last.ret.success))
           => LET id == IF last.op = "register" THEN last.data.id ELSE last.id
              IN id \notin CacheIds /\ id \notin CollectionIds(collection)

-----------------------------------------------------------------------------
(* Bounded history *)

\* C20: the message history is bounded: its length never exceeds a fixed
\* maximum however many send calls were made, the oldest messages being
\* dropped when the maximum is reached, so that it holds the most recent
\* messages in send order.  The maximum is taken to be HistoryLimit.
C20_HistoryBounded ==
    /\ Len(message_history) <= HistoryLimit
    /\ last.op = "send"
           => message_history[Len(message_history)] = last.msg

-----------------------------------------------------------------------------
(* Parameter defaults *)

\* C21: MCPToolRegistry.execute_tool applies declared defaults: when the
\* parameters that are present pass validation and every absent parameter is
\* either optional or declares a default, the executor is invoked, and it is
\* invoked with each absent parameter that declares a default set to that
\* default, required parameters included.
C21_DefaultsApplied ==
    (last.op = "execute" /\ last.entry = "registry" /\ tools[last.tool] # NoTool)
        => LET params == tools[last.tool].parameters
               Absent == {i \in 1..Len(params) :
                              params[i].name \notin DOMAIN last.parameters}
               Defaulted == {i \in Absent : params[i].default # PyNone}
           IN (/\ Defaulted # {}
               /\ \A i \in Absent : i \in Defaulted \/ ~params[i].required
               /\ \A i \in (1..Len(params)) \ Absent :
                      ValidateParameter(params[i], last.parameters) = PyNone)
                  => /\ last.invoked = {last.tool}
                     /\ \A i \in Defaulted :
                            /\ params[i].name \in DOMAIN last.args
                            /\ last.args[params[i].name] = params[i].default

-----------------------------------------------------------------------------
(* Emission never blocks *)

\* C22: lifecycle-event emission never blocks the send path: a send that has
\* begun eventually returns its result, also when an observer's connection
\* never completes an emission.
C22_SendReturnsDespiteObserver ==
    (task.pc = "emit_sent") ~> (task.pc = "returned")

-----------------------------------------------------------------------------
(* Fan-out *)

\* C23: broadcast does not serialize on the slowest target: the dispatch to a
\* target does not wait for an earlier remote target that answers only when
\* its timeout fires.
C23_FanOutNotSerialized ==
    task.pc = "fanout"
        => \A j \in 1..Len(task.waited) :
               \A i \in 1..(j - 1) :
                   (/\ Listed(task.targets[i]) # NoAgent
                    /\ Listed(task.targets[i]).endpoint # ""
                    /\ task.behs[task.targets[i]].http = "timeout")
                       => i \notin task.waited[j]

-----------------------------------------------------------------------------
(* Descriptor status *)

\* C24: the status of a listed descriptor follows the state machine:
\* registration puts it in active, three failed remote dispatches in a row
\* (timeout, connection error or non-200) put it in error, it stays listed,
\* and a successful dispatch puts it back in active.
C24_StatusFollowsDispatches ==
    /\ (last.op = "register" /\ last.ret.success /\ ~last.was_registered)
           => StatusOf(Listed(last.data.id)) = "active"
    /\ \A id \in AgentIds :
           Listed(id) # NoAgent
               => StatusOf(Listed(id)) = IF failures[id] >= 3 THEN "error"
                                         ELSE "active"
    /\ (last.op = "send" /\ last.path = "http")
           => Listed(last.msg.to_agent) # NoAgent

-----------------------------------------------------------------------------
(* Tool sequences *)

\* C25: execute_tool_sequence runs the steps in order and stops at the first
\* step that fails unless that step's parameters set continue_on_error to
\* true: the results are those of a prefix of the sequence, every returned
\* step but the last succeeded or had continue_on_error true, and the whole
\* sequence is run unless the last returned step is such a failure.
C25_SequenceStopsAtFailure ==
    last.op = "sequence"
        => LET seq == last.tool_sequence
               Continues(i) ==
                   \/ last.ret[i].success
                   \/ /\ "continue_on_error" \in DOMAIN seq[i].parameters
                      /\ seq[i].parameters["continue_on_error"] = PyBool(TRUE)
           IN /\ Len(last.ret) <= Len(seq)
              /\ \A i \in 1..Len(last.ret) :
                     last.ret[i] = AgentExecuteTool(agent_tools, seq[i].tool,
                                                    seq[i].parameters,
                                                    last.outs[i]).ret
              /\ \A i \in 1..(Len(last.ret) - 1) : Continues(i)
              /\ Len(last.ret) < Len(seq) => ~Continues(Len(last.ret))

-----------------------------------------------------------------------------
(* Tool selection *)

\* C26: the proposal of the reasoning backend is executed only when it is a
\* non-empty array of objects each naming a registered tool; when it is
\* empty, is no array, holds an element naming no registered tool, or the
\* backend fails, the keyword fallback is used, so that every step of the
\* selected sequence names a registered tool.
C26_ProposalValidatedOrFallback ==
    last.op = "semantic"
        => LET p == last.proposal
               WellFormed ==
                   /\ p.kind = "return"
                   /\ p.val.t = "list"
                   /\ p.val.v # <<>>
                   /\ \A i \in 1..Len(p.val.v) :
                          /\ IsDict(p.val.v[i])
                          /\ HasKey(p.val.v[i], "tool")
                          /\ agent_tools[p.val.v[i].v["tool"]] # NoTool
           IN /\ last.source = "proposal" <=> WellFormed
              /\ last.source = "fallback"
                     => last.tool_sequence
                            = FallbackToolSelection(agent_tools, last.query,
                                                    [query |-> last.query])
              /\ \A i \in 1..Len(last.tool_sequence) :
                     agent_tools[last.tool_sequence[i].tool] # NoTool

\* C27: every step of the selected tool sequence is accounted for in the
\* output of a semantic query: each step is in results (it succeeded) or in
\* errors (it failed or was skipped after an earlier failure), in sequence
\* order, so the two lists together are as long as the tool sequence.
C27_EveryStepAccounted ==
    (last.op = "semantic" /\ last.tool_sequence # <<>>)
        => /\ Len(last.ret.results) + Len(last.ret.errors) = Len(last.tool_sequence)
           /\ \A i \in 1..Len(last.tool_sequence) :
                  \/ \E k \in 1..Len(last.ret.results) :
                         last.ret.results[k].tool = last.tool_sequence[i].tool
                  \/ \E k \in 1..Len(last.ret.errors) :
                         last.ret.errors[k].tool = last.tool_sequence[i].tool

-----------------------------------------------------------------------------
(* Other agents are left alone *)

\* C28: a register, update or unregister call for one agent id, whether it
\* succeeds or fails, changes for no other id whether it is listed, the
\* descriptor list() returns for it, or the outcome of resolving it in send.
C28_OtherAgentsUntouched ==
    [][last'.op \in {"register", "update", "unregister"}
           => LET a == IF last'.op = "register" THEN last'.data.id ELSE last'.id
              IN \A b \in AgentIds \ {a} :
                     /\ FindTarget(ListAgents(collection'), b) = Listed(b)
                     /\ \A m \in {x \in Messages : x.to_agent = b},
                           beh \in BasicBehaviours :
                            SendMessage(collection', agent_handlers', m, beh)
                                = SendMessage(collection, agent_handlers, m, beh)]_vars

\* An update that succeeded while another agent is listed.
C28_Witness ==
    /\ last.op = "update"
    /\ last.ret
    /\ \E b \in AgentIds \ {last.id} : Listed(b) # NoAgent

-----------------------------------------------------------------------------
(* Health counters *)

-----------------------------------------------------------------------------
(* Self-registration *)

\* C30: an agent's self-registration retries until it succeeds.
\* registration_status stays pending, and is never failed, while attempts
\* fail for whatever reason; registration_attempts equals the number of
\* registration POSTs made; once the registry answers a POST with HTTP 200
\* and success = true, register_with_a2a eventually returns true with
\* registration_status registered; and /health then reports
\* registration_status registered.
C30_RegistrationRetriesUntilSuccess ==
    /\ [](/\ registration.registration_status \in {"pending", "registered"}
          /\ registration.registration_status = "registered"
                 <=> (registration.pc = "returned" /\ registration.ret = PyBool(TRUE))
          /\ registration.pc = "returned" => registration.ret = PyBool(TRUE)
          /\ registration.registration_attempts = registration.posts
          /\ last.op = "runner_health"
                 => /\ last.ret.registration_status = "registered"
                    /\ last.ret.registration_attempts = registration.posts)
    /\ (registration.pc = "answered" /\ AttemptRegisters(registration.reply))
           ~> (/\ registration.pc = "returned"
               /\ registration.ret = PyBool(TRUE)
               /\ registration.registration_status = "registered")
    /\ (registration.pc = "sleeping"
            /\ registration.registration_attempts < MaxAttempts)
           ~> (registration.pc = "posting")

\* /health read after a registration that succeeded at a later attempt than
\* the first.
C30_Witness ==
    /\ last.op = "runner_health"
    /\ registration.registration_status = "registered"
    /\ registration.registration_attempts >= 2
    /\ registration.retry_count >= 1

====
